---- MODULE Spec2Model ----
(***************************************************************************)
(* Model of the data-acquisition layer of the NQ=F dashboard               *)
(* (nasdaq_predictor/data/fetcher_live.py): RateLimiter, DataCache,        *)
(* LiveDataFetcher.fetch_data / _validate_data / get_current_price.        *)
(* Time is counted in whole seconds.                                       *)
(***************************************************************************)
EXTENDS Integers, Sequences, FiniteSets, TLC

VARIABLES
    USE_MOCK_DATA,      \* module switch: mock generator instead of the provider
    clock,              \* time.time()
    cache,              \* DataCache.cache    : key -> [timestamp, data]
    fallback,           \* DataCache.fallback : key -> data
    last_request_time,  \* RateLimiter.last_request_time : key -> time
    th,                 \* one call frame per thread
    calls,              \* number of top-level calls started so far
    lastGood,           \* history: key -> series of the last successful fetch
    reqLast,            \* history: symbol -> time its last external request started
    vin,                \* _validate_data harness: the arguments
    vout,               \* _validate_data harness: the returned tuple
    heap,               \* DataCache as objects: the DataFrames that exist
    held,               \* DataCache as objects: the frames the caller holds
    cop,                \* DataCache as objects: the last operation (history)
    orig,               \* DataCache as objects: what set() was given (history)
    rt,                 \* /api/current-price/<ticker>: the request being served
    mt,                 \* MarketStatusService: the instant asked about
    mout,               \* MarketStatusService: what get_market_info returned
    pin,                \* a pure function on its own: the arguments
    pout                \* a pure function on its own: the result

fetcherVars == <<USE_MOCK_DATA, clock, cache, fallback, last_request_time, th, calls,
                 lastGood, reqLast>>
validateVars == <<vin, vout>>
objVars == <<heap, held, cop, orig>>
routeVars == <<rt>>
marketVars == <<mt, mout>>
pureVars == <<pin, pout>>
harnessVars == <<validateVars, objVars, routeVars, marketVars, pureVars>>
vars == <<fetcherVars, harnessVars>>

----------------------------------------------------------------------------
(* Program constants *)

RATE_LIMIT_DELAY == 1
CACHE_TTL == 95
DefaultMaxRetries == 3
retry_delays == <<2, 5, 10>>

\* float('nan'): a missing cell.  Every price and volume is positive, so -1 is free.
NaN == -1

\* keys of LiveDataFetcher.FETCH_CONFIG
FETCH_CONFIG == {"1m", "5m", "15m", "30m", "1h", "1d", "1wk"}

----------------------------------------------------------------------------
(* Bars and series.  A DataFrame is the sequence of its rows; a row is a   *)
(* record of the five OHLCV columns.                                       *)

Columns == {"Open", "High", "Low", "Close", "Volume"}

Bar(o, h, l, c, v) == [Open |-> o, High |-> h, Low |-> l, Close |-> c, Volume |-> v]

\* pandas comparison of two cells: False as soon as one side is NaN
Lt(a, b) == a # NaN /\ b # NaN /\ a < b

----------------------------------------------------------------------------
(* LiveDataFetcher._validate_data *)

min_bars(interval) ==
    CASE interval = "1m" -> 60 [] interval = "5m" -> 12 [] interval = "15m" -> 4
      [] interval = "30m" -> 2 [] interval = "1h" -> 24 [] interval = "1d" -> 5
      [] interval = "1wk" -> 1 [] OTHER -> 1

\* faulty variant: the mask without its last term (Low > Close)
invalid_ohlc_no_low_close(df) ==
    SelectSeq(df, LAMBDA r : \/ Lt(r.High, r.Low)
                             \/ Lt(r.High, r.Open)
                             \/ Lt(r.High, r.Close)
                             \/ Lt(r.Open, r.Low))

\* the rows selected by the boolean mask of Check 2
invalid_ohlc(df) ==
    SelectSeq(df, LAMBDA r : \/ Lt(r.High, r.Low)
                             \/ Lt(r.High, r.Open)
                             \/ Lt(r.High, r.Close)
                             \/ Lt(r.Open, r.Low)
                             \/ Lt(r.Close, r.Low))

\* df[[...]].isna().sum().sum()
nan_count(df) ==
    Cardinality({ic \in (1..Len(df)) \X Columns : df[ic[1]][ic[2]] = NaN})

\* faulty variant: no validation at all
_validate_data_accept_all(df, ticker, interval) ==
    [is_valid |-> TRUE, errors |-> <<>>]

_validate_data(df, ticker, interval) ==
    LET e1 == IF Len(df) < min_bars(interval)
              THEN <<"Insufficient bars">> ELSE <<>>
        e2 == IF interval \notin {"1d", "1wk"} /\ Len(invalid_ohlc(df)) # 0
              THEN <<"Invalid OHLC relationships">> ELSE <<>>
        e3 == IF nan_count(df) > 0
              THEN <<"NaN values detected">> ELSE <<>>
        errors == e1 \o e2 \o e3
    IN  [is_valid |-> Len(errors) = 0, errors |-> errors]

----------------------------------------------------------------------------
(* Inputs of the model *)

Threads == {1, 2}
Tickers == {"NQ=F"}
\* intervals the callers ask for; "2h" is not a key of FETCH_CONFIG
CallIntervals == {"30m", "2h"}
\* values of the max_retries argument: none, the default, more than retry_delays holds
RetryArgs == {0, DefaultMaxRetries, 5}
MaxCalls == 2
MaxClock == 100
\* idle time passes in steps around the TTL, so that the ages 94, 95, 96 occur
ClockSteps == {CACHE_TTL - 1, CACHE_TTL, CACHE_TTL + 1}

G1 == Bar(100, 102, 99, 101, 1000)
G2 == Bar(101, 103, 100, 102, 1100)
BadBar == Bar(100, 98, 99, 101, 1000)
NaNBar == Bar(100, 102, 99, 101, NaN)

Pad(k) == [i \in 1..k |-> G1]

\* what the provider may hand back (besides raising): empty, too short,
\* inconsistent, with a missing cell, and well-formed series
ProviderSeries == {<<>>, <<G1>>, <<BadBar, G1>>, <<NaNBar, G2>>, <<G1, G2>>, Pad(60)}

\* what ticker_obj.info may hold as currentPrice / regularMarketPrice
InfoPrices == {101}

----------------------------------------------------------------------------
(* Keys *)

cache_key(ticker, interval) == ticker \o "_" \o interval

price_rate_key(ticker) == ticker \o "_price"

fetch_rate_key(ticker) == ticker

----------------------------------------------------------------------------
(* Call frames *)

NoDf == <<>>

\* history: f after the provider's answer of kind a to one attempt
Answered(f, a) == [f EXCEPT !.first = IF @ = "none" THEN a ELSE @, !.last = a]

None == [kind |-> "none", df |-> NoDf, price |-> NaN]
Pending == [kind |-> "pending", df |-> NoDf, price |-> NaN]
Raised == [kind |-> "raise", df |-> NoDf, price |-> NaN]
DfResult(df) == [kind |-> "df", df |-> df, price |-> NaN]
PriceResult(p) == [kind |-> "price", df |-> NoDf, price |-> p]

IdleFrame ==
    [pc |-> "idle", op |-> "none", stage |-> "none", ticker |-> "", interval |-> "", max_retries |-> 0,
     use_cache |-> FALSE, attempt |-> 0, df |-> NoDf, wake |-> 0, result |-> Pending,
     \* history of the call, read by the properties only
     via |-> "none", ext |-> 0, sleeps |-> <<>>, first |-> "none", last |-> "none",
     entryAge |-> NaN, entryData |-> NoDf, gap |-> NaN]

Max(a, b) == IF a >= b THEN a ELSE b

\* the frame of a call that has returned (or raised); get_current_price turns
\* the outcome of its nested fetch_data into a price (lines 365-375)
Finish(f, result, via) ==
    LET out == IF f.op = "price" /\ result.kind # "price"
               THEN IF result.kind = "df" /\ Len(result.df) > 0
                    THEN PriceResult(result.df[Len(result.df)].Close)
                    ELSE None
               ELSE result
    IN  [f EXCEPT !.pc = "done", !.result = out, !.via = via]

----------------------------------------------------------------------------
(* DataCache *)

\* faulty variant: an entry aged exactly ttl is still served
DataCache_get_inclusive(key) ==
    IF key \notin DOMAIN cache
    THEN None
    ELSE LET age == clock - cache[key].timestamp
         IN  IF age <= CACHE_TTL THEN DfResult(cache[key].data) ELSE None

\* faulty variant: the age is not looked at
DataCache_get_no_expiry(key) ==
    IF key \notin DOMAIN cache THEN None ELSE DfResult(cache[key].data)

DataCache_get(key) ==
    IF key \notin DOMAIN cache
    THEN None
    ELSE LET age == clock - cache[key].timestamp
         IN  IF age < CACHE_TTL THEN DfResult(cache[key].data) ELSE None

\* faulty variant: the fallback map is never read
DataCache_get_fallback_none(key) == None

DataCache_get_fallback(key) ==
    IF key \in DOMAIN fallback THEN DfResult(fallback[key]) ELSE None

\* DataCache.set is two assignments; each is one step of the calling thread
SetCache(t) ==
    /\ th[t].pc = "set_cache"
    /\ LET key == cache_key(th[t].ticker, th[t].interval)
       IN  cache' = (key :> [timestamp |-> clock, data |-> th[t].df]) @@ cache
    /\ th' = [th EXCEPT ![t].pc = "set_fallback"]
    /\ UNCHANGED <<USE_MOCK_DATA, clock, fallback, last_request_time, calls,
                   lastGood, reqLast, harnessVars>>

\* faulty variant: DataCache.set without its second assignment
SetFallback_skipped(t) ==
    /\ th[t].pc = "set_fallback"
    /\ th' = [th EXCEPT ![t] = Finish(th[t], DfResult(th[t].df),
                                      IF th[t].via = "mock" THEN "mock" ELSE "fresh")]
    /\ UNCHANGED <<USE_MOCK_DATA, clock, cache, fallback, last_request_time, calls,
                   lastGood, reqLast, harnessVars>>

\* the second assignment of DataCache.set, then fetch_data returns df
SetFallback(t) ==
    /\ th[t].pc = "set_fallback"
    /\ LET key == cache_key(th[t].ticker, th[t].interval)
       IN  /\ fallback' = (key :> th[t].df) @@ fallback
           /\ lastGood' = (key :> th[t].df) @@ lastGood
    /\ th' = [th EXCEPT ![t] = Finish(th[t], DfResult(th[t].df),
                                      IF th[t].via = "mock" THEN "mock" ELSE "fresh")]
    /\ UNCHANGED <<USE_MOCK_DATA, clock, cache, last_request_time, calls,
                   reqLast, harnessVars>>

\* faulty variant: entries are dropped as soon as they are older than the TTL
clear_expired_at_ttl(c, now) ==
    LET expired_keys == {key \in DOMAIN c : now - c[key].timestamp > CACHE_TTL}
    IN  [key \in DOMAIN c \ expired_keys |-> c[key]]

\* DataCache.clear_expired: the cache map it leaves behind
clear_expired(c, now) ==
    LET expired_keys == {key \in DOMAIN c : now - c[key].timestamp > CACHE_TTL * 2}
    IN  [key \in DOMAIN c \ expired_keys |-> c[key]]

ClearExpired ==
    /\ cache' = clear_expired(cache, clock)
    /\ UNCHANGED <<USE_MOCK_DATA, clock, fallback, last_request_time, th, calls,
                   lastGood, reqLast, harnessVars>>

----------------------------------------------------------------------------
(* RateLimiter.wait *)

rate_key(f) == IF f.stage = "info" THEN price_rate_key(f.ticker) ELSE fetch_rate_key(f.ticker)

\* lines 54-61: read the clock, decide whether to sleep
RateCheck(t) ==
    /\ th[t].pc = "rl_wait"
    /\ LET key == rate_key(th[t])
           now == clock
       IN  IF key \in DOMAIN last_request_time
              /\ now - last_request_time[key] < RATE_LIMIT_DELAY
           THEN th' = [th EXCEPT ![t].pc = "rl_sleep",
                                 ![t].wake = now + (RATE_LIMIT_DELAY - (now - last_request_time[key]))]
           ELSE th' = [th EXCEPT ![t].pc = "rl_stamp"]
    /\ UNCHANGED <<USE_MOCK_DATA, clock, cache, fallback, last_request_time, calls,
                   lastGood, reqLast, harnessVars>>

\* time.sleep returns: at least the requested time has passed
RateWake(t) ==
    /\ th[t].pc = "rl_sleep"
    /\ clock' = Max(clock, th[t].wake)
    /\ th' = [th EXCEPT ![t].pc = "rl_stamp"]
    /\ UNCHANGED <<USE_MOCK_DATA, cache, fallback, last_request_time, calls,
                   lastGood, reqLast, harnessVars>>

\* line 63
RateStamp(t) ==
    /\ th[t].pc = "rl_stamp"
    /\ last_request_time' = (rate_key(th[t]) :> clock) @@ last_request_time
    /\ th' = [th EXCEPT ![t].pc = "request"]
    /\ UNCHANGED <<USE_MOCK_DATA, clock, cache, fallback, calls,
                   lastGood, reqLast, harnessVars>>

----------------------------------------------------------------------------
(* LiveDataFetcher.fetch_data *)

\* get_mock_data: thousands of generated bars, every one with High/Low
\* enclosing Open/Close and an integer volume; modelled with 60 bars
MockSeries == {Pad(60), Pad(59) \o <<G2>>}

\* get_mock_current_price
MockPrices == {100}

\* faulty variant: the interval is not checked against FETCH_CONFIG
FetchEntry_no_interval_check(f) ==
    LET key == cache_key(f.ticker, f.interval)
        cached_data == IF f.use_cache THEN DataCache_get(key) ELSE None
        g == [f EXCEPT !.entryAge = IF key \in DOMAIN cache
                                    THEN clock - cache[key].timestamp ELSE NaN,
                       !.entryData = IF key \in DOMAIN cache
                                     THEN cache[key].data ELSE NoDf]
    IN  IF cached_data.kind = "df" THEN Finish(g, cached_data, "hit")
        ELSE IF USE_MOCK_DATA THEN [g EXCEPT !.pc = "mock"]
        ELSE IF f.max_retries <= 0 THEN Finish(g, None, "no_attempt")
        ELSE [g EXCEPT !.pc = "rl_wait", !.attempt = 0]

\* lines 184-214 for the frame f of a call whose arguments are set: the
\* interval check, the cache lookup, the mock switch, the entry of the loop
FetchEntry(f) ==
    LET key == cache_key(f.ticker, f.interval)
        cached_data == IF f.use_cache THEN DataCache_get(key) ELSE None
        g == [f EXCEPT !.entryAge = IF key \in DOMAIN cache
                                    THEN clock - cache[key].timestamp ELSE NaN,
                       !.entryData = IF key \in DOMAIN cache
                                     THEN cache[key].data ELSE NoDf]
    IN  IF f.interval \notin FETCH_CONFIG THEN Finish(f, None, "unsupported")
        ELSE IF cached_data.kind = "df" THEN Finish(g, cached_data, "hit")
        ELSE IF USE_MOCK_DATA THEN [g EXCEPT !.pc = "mock"]
        ELSE IF f.max_retries <= 0 THEN Finish(g, None, "no_attempt")
        ELSE [g EXCEPT !.pc = "rl_wait", !.attempt = 0]

CallFetch(t, ticker, interval, max_retries, use_cache) ==
    /\ th[t].pc = "idle"
    /\ calls < MaxCalls
    /\ calls' = calls + 1
    /\ th' = [th EXCEPT ![t] = FetchEntry([IdleFrame EXCEPT
                  !.op = "fetch", !.stage = "fetch", !.ticker = ticker,
                  !.interval = interval, !.max_retries = max_retries,
                  !.use_cache = use_cache])]
    /\ UNCHANGED <<USE_MOCK_DATA, clock, cache, fallback, last_request_time,
                   lastGood, reqLast, harnessVars>>

\* lines 197-204: the generated frame goes to cache.set unvalidated
MockGenerate(t) ==
    /\ th[t].pc = "mock"
    /\ \E df \in MockSeries :
          th' = [th EXCEPT ![t].pc = "set_cache", ![t].df = df, ![t].via = "mock"]
    /\ UNCHANGED <<USE_MOCK_DATA, clock, cache, fallback, last_request_time, calls,
                   lastGood, reqLast, harnessVars>>

\* the request leaves for the provider: ticker_obj.history (line 224) or
\* ticker_obj.info (line 363)
RequestStart(t) ==
    /\ th[t].pc = "request"
    /\ LET sym == th[t].ticker
       IN  /\ reqLast' = (sym :> clock) @@ reqLast
           /\ th' = [th EXCEPT ![t].pc = "inflight", ![t].ext = @ + 1,
                                ![t].gap = IF sym \in DOMAIN reqLast
                                           THEN clock - reqLast[sym] ELSE NaN]
    /\ UNCHANGED <<USE_MOCK_DATA, clock, cache, fallback, last_request_time, calls,
                   lastGood, harnessVars>>

\* the request raises (network error, HTTP error, timeout)
ProviderRaises(t) ==
    /\ th[t].pc = "inflight"
    /\ th[t].stage = "fetch"
    /\ th' = [th EXCEPT ![t] = [Answered(@, "exception") EXCEPT !.pc = "failed"]]
    /\ UNCHANGED <<USE_MOCK_DATA, clock, cache, fallback, last_request_time, calls,
                   lastGood, reqLast, harnessVars>>

\* lines 224-235: the provider hands back the frame s.  Line 230 converts the
\* zone of the index only; the rows, all the model keeps of a frame, stay
ProviderAnswers(t, s) ==
    /\ th[t].pc = "inflight"
    /\ th[t].stage = "fetch"
    /\ IF Len(s) = 0
       THEN th' = [th EXCEPT ![t] = [Answered(@, "empty") EXCEPT !.pc = "failed"]]
       ELSE LET df == s
                v == _validate_data(df, th[t].ticker, th[t].interval)
            IN  IF ~v.is_valid
                THEN th' = [th EXCEPT ![t] = [Answered(@, "invalid") EXCEPT !.pc = "failed"]]
                ELSE th' = [th EXCEPT ![t] = [Answered(@, "valid") EXCEPT
                                                   !.pc = "set_cache", !.df = df]]
    /\ UNCHANGED <<USE_MOCK_DATA, clock, cache, fallback, last_request_time, calls,
                   lastGood, reqLast, harnessVars>>

\* faulty variant: off by one, the last attempt sleeps and retries too
should_retry_always(attempt, max_retries) == attempt < max_retries

\* line 245
should_retry(attempt, max_retries) == attempt < max_retries - 1

\* faulty variant: the fallback that is served is put back into the cache
Failed_refreshes(t) ==
    /\ th[t].pc = "failed"
    /\ LET f == th[t]
           key == cache_key(f.ticker, f.interval)
           fallback_data == DataCache_get_fallback(key)
       IN  IF should_retry(f.attempt, f.max_retries)
           THEN /\ f.attempt + 1 <= Len(retry_delays)
                /\ th' = [th EXCEPT ![t].pc = "backoff",
                                     ![t].wake = clock + retry_delays[f.attempt + 1],
                                     ![t].sleeps = Append(@, retry_delays[f.attempt + 1])]
                /\ cache' = cache
           ELSE IF fallback_data.kind = "df"
                THEN /\ th' = [th EXCEPT ![t] = Finish(f, fallback_data, "fallback")]
                     /\ cache' = (key :> [timestamp |-> clock, data |-> fallback_data.df])
                                    @@ cache
                ELSE /\ th' = [th EXCEPT ![t] = Finish(f, None, "unavailable")]
                     /\ cache' = cache
    /\ UNCHANGED <<USE_MOCK_DATA, clock, fallback, last_request_time, calls,
                   lastGood, reqLast, harnessVars>>

\* faulty variant: giving up also drops the cache entry of the key
Failed_evicts(t) ==
    /\ th[t].pc = "failed"
    /\ LET f == th[t]
           key == cache_key(f.ticker, f.interval)
           fallback_data == DataCache_get_fallback(key)
       IN  IF should_retry(f.attempt, f.max_retries)
           THEN /\ f.attempt + 1 <= Len(retry_delays)
                /\ th' = [th EXCEPT ![t].pc = "backoff",
                                     ![t].wake = clock + retry_delays[f.attempt + 1],
                                     ![t].sleeps = Append(@, retry_delays[f.attempt + 1])]
                /\ cache' = cache
           ELSE /\ th' = [th EXCEPT ![t] = Finish(f, fallback_data, "fallback")]
                /\ cache' = [k \in DOMAIN cache \ {key} |-> cache[k]]
    /\ UNCHANGED <<USE_MOCK_DATA, clock, fallback, last_request_time, calls,
                   lastGood, reqLast, harnessVars>>

\* lines 242-256: the except clause of one attempt
Failed(t) ==
    /\ th[t].pc = "failed"
    /\ LET f == th[t]
           key == cache_key(f.ticker, f.interval)
           fallback_data == DataCache_get_fallback(key)
       IN  IF should_retry(f.attempt, f.max_retries)
           THEN IF f.attempt + 1 > Len(retry_delays)
                THEN \* retry_delays[attempt] raises IndexError out of the handler
                     th' = [th EXCEPT ![t] = Finish(f, Raised, "raised")]
                ELSE LET delay == retry_delays[f.attempt + 1]
                     IN  th' = [th EXCEPT ![t].pc = "backoff",
                                          ![t].wake = clock + delay,
                                          ![t].sleeps = Append(@, delay)]
           ELSE IF fallback_data.kind = "df"
                THEN th' = [th EXCEPT ![t] = Finish(f, fallback_data, "fallback")]
                ELSE th' = [th EXCEPT ![t] = Finish(f, None, "unavailable")]
    /\ UNCHANGED <<USE_MOCK_DATA, clock, cache, fallback, last_request_time, calls,
                   lastGood, reqLast, harnessVars>>

\* time.sleep(delay) returns and the loop takes the next attempt
BackoffWake(t) ==
    /\ th[t].pc = "backoff"
    /\ clock' = Max(clock, th[t].wake)
    /\ th' = [th EXCEPT ![t].pc = "rl_wait", ![t].attempt = @ + 1]
    /\ UNCHANGED <<USE_MOCK_DATA, cache, fallback, last_request_time, calls,
                   lastGood, reqLast, harnessVars>>

\* the caller takes the result
Return(t) ==
    /\ th[t].pc = "done"
    /\ th' = [th EXCEPT ![t] = IdleFrame]
    /\ UNCHANGED <<USE_MOCK_DATA, clock, cache, fallback, last_request_time, calls,
                   lastGood, reqLast, harnessVars>>

----------------------------------------------------------------------------
(* LiveDataFetcher.get_current_price *)

\* lines 354-359
CallPrice(t, ticker) ==
    /\ th[t].pc = "idle"
    /\ calls < MaxCalls
    /\ calls' = calls + 1
    /\ LET f == [IdleFrame EXCEPT !.op = "price", !.stage = "info", !.ticker = ticker]
       IN  IF USE_MOCK_DATA
           THEN \E p \in MockPrices :
                   th' = [th EXCEPT ![t] = Finish(f, PriceResult(p), "mock")]
           ELSE th' = [th EXCEPT ![t] = [f EXCEPT !.pc = "rl_wait"]]
    /\ UNCHANGED <<USE_MOCK_DATA, clock, cache, fallback, last_request_time,
                   lastGood, reqLast, harnessVars>>

\* ticker_obj.info raises: the except clause of line 373 returns None
InfoRaises(t) ==
    /\ th[t].pc = "inflight"
    /\ th[t].stage = "info"
    /\ th' = [th EXCEPT ![t] = Finish(th[t], None, "unavailable")]
    /\ UNCHANGED <<USE_MOCK_DATA, clock, cache, fallback, last_request_time, calls,
                   lastGood, reqLast, harnessVars>>

\* ticker_obj.info holds a price
InfoPrice(t, p) ==
    /\ th[t].pc = "inflight"
    /\ th[t].stage = "info"
    /\ th' = [th EXCEPT ![t] = Finish(th[t], PriceResult(p), "fresh")]
    /\ UNCHANGED <<USE_MOCK_DATA, clock, cache, fallback, last_request_time, calls,
                   lastGood, reqLast, harnessVars>>

\* ticker_obj.info holds no price: lines 365-367 fall back to fetch_data(ticker, '1m')
InfoNone(t) ==
    /\ th[t].pc = "inflight"
    /\ th[t].stage = "info"
    /\ th' = [th EXCEPT ![t] = FetchEntry([th[t] EXCEPT
                  !.stage = "fetch", !.interval = "1m",
                  !.max_retries = DefaultMaxRetries, !.use_cache = TRUE])]
    /\ UNCHANGED <<USE_MOCK_DATA, clock, cache, fallback, last_request_time, calls,
                   lastGood, reqLast, harnessVars>>

----------------------------------------------------------------------------
(* The environment: time passes *)

\* between calls; time is measured from the first call
Tick(d) ==
    /\ calls > 0
    /\ \A t \in Threads : th[t].pc = "idle"
    /\ clock + d <= MaxClock
    /\ clock' = clock + d
    /\ UNCHANGED <<USE_MOCK_DATA, cache, fallback, last_request_time, th, calls,
                   lastGood, reqLast, harnessVars>>

----------------------------------------------------------------------------
(* Specifications *)

NoCall == [done |-> FALSE, is_valid |-> FALSE, errors |-> <<>>]

InitFetcher ==
    /\ USE_MOCK_DATA \in BOOLEAN
    /\ clock = 0
    /\ cache = <<>>
    /\ fallback = <<>>
    /\ last_request_time = <<>>
    /\ th = [t \in Threads |-> IdleFrame]
    /\ calls = 0
    /\ lastGood = <<>>
    /\ reqLast = <<>>

\* the parts of the model a specification does not exercise stay as they start
IdleValidate == vin = [df |-> <<>>, interval |-> "1d"] /\ vout = NoCall

NoOp == [op |-> "none", key |-> "", ref |-> 0]

IdleObj ==
    /\ heap = <<>>
    /\ held = {}
    /\ cop = NoOp
    /\ orig = [cache |-> <<>>, fallback |-> <<>>]

NoRequest ==
    [pc |-> "none", ticker |-> "", status |-> 0, success |-> FALSE, error |-> "",
     current_price |-> NaN, is_live |-> FALSE]

IdleRoute == rt = NoRequest

IdleMarket ==
    /\ mt = [weekday |-> 0, hour |-> 0, minute |-> 0, second |-> 0]
    /\ mout = [done |-> FALSE, status |-> "",
               next_event |-> [type |-> "", time |-> 0, countdown_seconds |-> 0]]

IdlePure == pin = [fn |-> "none"] /\ pout = [done |-> FALSE]

Init ==
    /\ InitFetcher
    /\ IdleValidate /\ IdleObj /\ IdleRoute /\ IdleMarket /\ IdlePure

ThreadStep(t) ==
    \/ \E ticker \in Tickers, interval \in CallIntervals,
          max_retries \in RetryArgs, use_cache \in BOOLEAN :
          CallFetch(t, ticker, interval, max_retries, use_cache)
    \/ \E ticker \in Tickers : CallPrice(t, ticker)
    \/ MockGenerate(t)
    \/ RateCheck(t)
    \/ RateWake(t)
    \/ RateStamp(t)
    \/ RequestStart(t)
    \/ ProviderRaises(t)
    \/ \E s \in ProviderSeries : ProviderAnswers(t, s)
    \/ InfoRaises(t)
    \/ \E p \in InfoPrices : InfoPrice(t, p)
    \/ InfoNone(t)
    \/ Failed(t)
    \/ BackoffWake(t)
    \/ SetCache(t)
    \/ SetFallback(t)
    \/ Return(t)

\* one caller at a time
Next ==
    \/ ThreadStep(1)
    \/ \E d \in ClockSteps : Tick(d)
    \/ ClearExpired

Spec == Init /\ [][Next]_vars

\* concurrent callers (the server handles each request on its own thread):
\* the calls the routes make, fetch_data(ticker, interval) with the defaults
ConcIntervals == {"30m"}

\* the provider's answers to them: it raises, or hands back a well-formed series
ConcSeries == {<<G1, G2>>, Pad(60)}

ConcStep(t) ==
    \/ \E ticker \in Tickers, interval \in ConcIntervals :
          CallFetch(t, ticker, interval, DefaultMaxRetries, TRUE)
    \/ MockGenerate(t)
    \/ RateCheck(t)
    \/ RateWake(t)
    \/ RateStamp(t)
    \/ RequestStart(t)
    \/ ProviderRaises(t)
    \/ \E s \in ConcSeries : ProviderAnswers(t, s)
    \/ Failed(t)
    \/ BackoffWake(t)
    \/ SetCache(t)
    \/ SetFallback(t)
    \/ Return(t)

NextConc == \E t \in Threads : ConcStep(t)

SpecConc == Init /\ [][NextConc]_vars

----------------------------------------------------------------------------
(* _validate_data on its own: every frame of the input set, every interval *)

MaxFreeBars == 1

CellValues == {1, 2, NaN}

\* rows with at most one missing cell
FreeBars ==
    {b \in [Open : CellValues, High : CellValues, Low : CellValues,
            Close : CellValues, Volume : {500, NaN}] :
        Cardinality({c \in Columns : b[c] = NaN}) <= 1}

\* the frame of TEST 7 ("valid data accepted")
TestValidDf ==
    << Bar(100, 102, 99, 101, 1000000), Bar(101, 103, 100, 102, 1100000),
       Bar(102, 104, 101, 103, 1200000) >>

\* lengths on both sides of every minimum of min_bars
PadLens == {0} \cup UNION {{min_bars(i) - 1, min_bars(i)} : i \in FETCH_CONFIG}

FreePrefixes == UNION {[1..n -> FreeBars] : n \in 0..MaxFreeBars}

ValidateFrames ==
    {p \o Pad(k) : p \in FreePrefixes, k \in PadLens} \cup {TestValidDf}

InitValidate ==
    /\ InitFetcher
    /\ USE_MOCK_DATA = TRUE
    /\ vin \in [df : ValidateFrames, interval : FETCH_CONFIG]
    /\ vout = NoCall
    /\ IdleObj /\ IdleRoute /\ IdleMarket /\ IdlePure

ValidateCall ==
    /\ ~vout.done
    /\ LET r == _validate_data(vin.df, "TEST", vin.interval)
       IN  vout' = [done |-> TRUE, is_valid |-> r.is_valid, errors |-> r.errors]
    /\ UNCHANGED <<fetcherVars, vin, objVars, routeVars, marketVars, pureVars>>

NextValidate == ValidateCall

SpecValidate == InitValidate /\ [][NextValidate]_vars

----------------------------------------------------------------------------
(* DataCache with its DataFrames as objects.  In this specification cache    *)
(* and fallback hold references into heap, and a caller may write into any  *)
(* frame it holds.                                                          *)

MaxObjects == 5
MaxObjClock == 191

ObjKeys == {cache_key(tk, i) : tk \in Tickers, i \in {"30m", "1d"}}
ObjFrames == {<<G1>>, <<G2>>}
ObjSteps == {CACHE_TTL, CACHE_TTL + 1}

\* faulty variant: the frame itself is handed on
df_copy_alias(src, fresh) == src

\* data.copy(): the reference of the result, a frame of its own
df_copy(src, fresh) == fresh

Op(op, key, ref) == [op |-> op, key |-> key, ref |-> ref]

\* the caller gets a frame from the provider (df of line 224)
ObjNew(s) ==
    /\ Len(heap) < MaxObjects
    /\ heap' = Append(heap, s)
    /\ held' = held \cup {[ref |-> Len(heap) + 1, from |-> "new", key |-> ""]}
    /\ cop' = Op("new", "", Len(heap) + 1)
    /\ UNCHANGED <<fetcherVars, orig, validateVars, routeVars, marketVars, pureVars>>

\* cache.set(cache_key, df); return df (lines 237-240): both maps get a copy,
\* the caller keeps df
ObjSet(key, r) ==
    /\ \E h \in held : h.ref = r
    /\ Len(heap) + 2 <= MaxObjects
    /\ LET c1 == df_copy(r, Len(heap) + 1)
           c2 == df_copy(r, Len(heap) + 2)
       IN  /\ cache' = (key :> [timestamp |-> clock, data |-> c1]) @@ cache
           /\ fallback' = (key :> c2) @@ fallback
    /\ heap' = heap \o <<heap[r], heap[r]>>
    /\ orig' = [cache |-> (key :> heap[r]) @@ orig.cache,
                fallback |-> (key :> heap[r]) @@ orig.fallback]
    /\ cop' = Op("set", key, r)
    /\ UNCHANGED <<USE_MOCK_DATA, clock, last_request_time, th, calls, lastGood,
                   reqLast, held, validateVars, routeVars, marketVars, pureVars>>

\* what a lookup hands to the caller: nothing, or a copy of the stored frame
ObjReturn(found, op, key) ==
    IF found.kind = "df"
    THEN /\ Len(heap) < MaxObjects
         /\ LET c == df_copy(found.df, Len(heap) + 1)
            IN  /\ held' = held \cup {[ref |-> c, from |-> op, key |-> key]}
                /\ cop' = Op(op, key, c)
         /\ heap' = Append(heap, heap[found.df])
    ELSE /\ cop' = Op(op, key, 0)
         /\ UNCHANGED <<heap, held>>

\* cache.get(key)
ObjGet(key) ==
    /\ ObjReturn(DataCache_get(key), "get", key)
    /\ UNCHANGED <<fetcherVars, orig, validateVars, routeVars, marketVars, pureVars>>

\* cache.get_fallback(key)
ObjGetFallback(key) ==
    /\ ObjReturn(DataCache_get_fallback(key), "get_fallback", key)
    /\ UNCHANGED <<fetcherVars, orig, validateVars, routeVars, marketVars, pureVars>>

\* the caller writes into a frame it holds
ObjMutate(r, s) ==
    /\ \E h \in held : h.ref = r
    /\ heap[r] # s
    /\ heap' = [heap EXCEPT ![r] = s]
    /\ cop' = Op("mutate", "", r)
    /\ UNCHANGED <<fetcherVars, held, orig, validateVars, routeVars, marketVars, pureVars>>

\* LiveDataFetcher.maintenance_cleanup
maintenance_cleanup ==
    /\ cache' = clear_expired(cache, clock)
    /\ cop' = Op("clear_expired", "", 0)
    /\ UNCHANGED <<USE_MOCK_DATA, clock, fallback, last_request_time, th, calls,
                   lastGood, reqLast, heap, held, orig, validateVars, routeVars,
                   marketVars, pureVars>>

ObjTick(d) ==
    /\ clock + d <= MaxObjClock
    /\ clock' = clock + d
    /\ cop' = Op("tick", "", 0)
    /\ UNCHANGED <<USE_MOCK_DATA, cache, fallback, last_request_time, th, calls,
                   lastGood, reqLast, heap, held, orig, validateVars, routeVars,
                   marketVars, pureVars>>

NextCache ==
    \/ \E s \in ObjFrames : ObjNew(s)
    \/ \E key \in ObjKeys, r \in 1..MaxObjects : ObjSet(key, r)
    \/ \E key \in ObjKeys : ObjGet(key)
    \/ \E key \in ObjKeys : ObjGetFallback(key)
    \/ \E r \in 1..MaxObjects, s \in ObjFrames : ObjMutate(r, s)
    \/ maintenance_cleanup
    \/ \E d \in ObjSteps : ObjTick(d)

\* DataCache has no part in the mock switch
InitCache == Init /\ USE_MOCK_DATA = FALSE

SpecCache == InitCache /\ [][NextCache]_vars

----------------------------------------------------------------------------
(* MarketStatusService.  An instant is its wall-clock reading in ET:        *)
(* weekday (0 = Monday ... 6 = Sunday), hour, minute, second.               *)

\* seconds of wall-clock time since Monday 00:00:00 of the instant's week
Wall(t) == ((t.weekday * 24 + t.hour) * 60 + t.minute) * 60 + t.second

Days(n) == n * 24 * 3600

\* current_time_et.replace(hour=h, minute=0, second=0, microsecond=0)
replace_hour(t, h) == [t EXCEPT !.hour = h, !.minute = 0, !.second = 0]

is_market_open(t) ==
    LET day_of_week == t.weekday
        hour == t.hour
        minute == t.minute
    IN  IF day_of_week = 4 /\ (hour > 17 \/ (hour = 17 /\ minute >= 0)) THEN FALSE
        ELSE IF day_of_week = 5 THEN FALSE
        ELSE IF day_of_week = 6 /\ hour < 18 THEN FALSE
        ELSE IF hour = 17 THEN FALSE
        ELSE TRUE

\* faulty variant: the maintenance window runs through the hour of 18:00
get_market_status_through_18(t) ==
    IF t.hour \in {17, 18} THEN "MAINTENANCE"
    ELSE IF is_market_open(t) THEN "OPEN"
    ELSE "CLOSED"

get_market_status(t) ==
    IF t.hour = 17 THEN "MAINTENANCE"
    ELSE IF is_market_open(t) THEN "OPEN"
    ELSE "CLOSED"

\* faulty variant: the Monday-Thursday rule applied to every day
close_time_no_weekend_case(t) ==
    Wall(replace_hour(t, 17)) + Days(4 - t.weekday)

\* lines 159-179, as wall-clock seconds since Monday 00:00 of t's week
close_time(t) ==
    LET day_of_week == t.weekday
        at17 == Wall(replace_hour(t, 17))
    IN  IF day_of_week < 4 THEN at17 + Days(4 - day_of_week)
        ELSE IF day_of_week = 4
             THEN IF at17 <= Wall(t) THEN at17 + Days(7) ELSE at17
        ELSE IF day_of_week = 6 THEN at17 + Days(5)
        ELSE at17 + Days(6)

\* faulty variant: on Sunday the opening always rolls to the next week
open_time_sunday_rolls(t) ==
    IF t.weekday < 6
    THEN Wall(replace_hour(t, 18)) + Days(6 - t.weekday)
    ELSE Wall(replace_hour(t, 18)) + Days(7)

\* lines 188-200
open_time(t) ==
    LET day_of_week == t.weekday
        at18 == Wall(replace_hour(t, 18))
    IN  IF day_of_week < 6 THEN at18 + Days(6 - day_of_week)
        ELSE IF t.hour < 18 THEN at18
        ELSE at18 + Days(7)

get_next_event(t) ==
    LET event_type == IF is_market_open(t) THEN "close" ELSE "open"
        event_time == IF is_market_open(t) THEN close_time(t) ELSE open_time(t)
        countdown == event_time - Wall(t)
    IN  [type |-> event_type, time |-> event_time, countdown_seconds |-> countdown]

\* every hour of the week, at its first and last minute and second
MarketInstants ==
    [weekday : 0..6, hour : 0..23, minute : {0, 59}, second : {0, 59}]

NoMarketInfo ==
    [done |-> FALSE, status |-> "",
     next_event |-> [type |-> "", time |-> 0, countdown_seconds |-> 0]]

InitMarket ==
    /\ InitFetcher /\ USE_MOCK_DATA = TRUE
    /\ IdleValidate /\ IdleObj /\ IdleRoute
    /\ mt \in MarketInstants
    /\ mout = NoMarketInfo
    /\ IdlePure

\* get_market_info (lines 249-250)
get_market_info ==
    /\ ~mout.done
    /\ mout' = [done |-> TRUE, status |-> get_market_status(mt),
                next_event |-> get_next_event(mt)]
    /\ UNCHANGED <<fetcherVars, validateVars, objVars, routeVars, pureVars, mt>>

NextMarket == get_market_info

SpecMarket == InitMarket /\ [][NextMarket]_vars

----------------------------------------------------------------------------
(* GET /api/current-price/<ticker> (api/routes/price_routes.py).  The       *)
(* handler runs on thread 1; its fetch_data calls are the calls of the      *)
(* fetcher above.                                                           *)

RouteTickers == {"X", "INVALID", "NQ=F"}

\* a Monday and a Saturday morning
RouteInstants == {[weekday |-> wd, hour |-> 10, minute |-> 0, second |-> 0] : wd \in {0, 5}}

Respond(r, status, success, error) ==
    [r EXCEPT !.pc = "done", !.status = status, !.success = success, !.error = error]

\* lines 44-57: the ticker check, then the market state
RouteRequest(ticker) ==
    /\ rt.pc = "none"
    /\ rt' = IF ticker = "" \/ Len(ticker) < 2
             THEN Respond([rt EXCEPT !.ticker = ticker], 400, FALSE,
                          "Invalid ticker symbol")
             ELSE [rt EXCEPT !.pc = "fetch_1m", !.ticker = ticker,
                             !.is_live = is_market_open(mt)]
    /\ UNCHANGED <<fetcherVars, validateVars, objVars, marketVars, pureVars>>

\* line 61
RouteFetch1m ==
    /\ rt.pc = "fetch_1m"
    /\ CallFetch(1, rt.ticker, "1m", DefaultMaxRetries, TRUE)

\* lines 63-72
RouteTake1m ==
    /\ rt.pc = "fetch_1m"
    /\ th[1].pc = "done"
    /\ LET df_1m == th[1].result
       IN  rt' = IF df_1m.kind = "raise"
                 THEN Respond(rt, 500, FALSE, "Failed to fetch price")
                 ELSE IF df_1m.kind # "df" \/ Len(df_1m.df) = 0
                 THEN Respond(rt, 503, FALSE, "Unable to fetch price data")
                 ELSE [rt EXCEPT !.pc = "fetch_1d",
                                 !.current_price = df_1m.df[Len(df_1m.df)].Close]
    /\ th' = [th EXCEPT ![1] = IdleFrame]
    /\ UNCHANGED <<USE_MOCK_DATA, clock, cache, fallback, last_request_time, calls,
                   lastGood, reqLast, validateVars, objVars, marketVars, pureVars>>

\* line 93
RouteFetch1d ==
    /\ rt.pc = "fetch_1d"
    /\ CallFetch(1, rt.ticker, "1d", DefaultMaxRetries, TRUE)

\* lines 94-113: the daily frame may be missing, the answer is a success
RouteTake1d ==
    /\ rt.pc = "fetch_1d"
    /\ th[1].pc = "done"
    /\ rt' = IF th[1].result.kind = "raise"
             THEN Respond(rt, 500, FALSE, "Failed to fetch price")
             ELSE Respond(rt, 200, TRUE, "")
    /\ th' = [th EXCEPT ![1] = IdleFrame]
    /\ UNCHANGED <<USE_MOCK_DATA, clock, cache, fallback, last_request_time, calls,
                   lastGood, reqLast, validateVars, objVars, marketVars, pureVars>>

InitRoute ==
    /\ InitFetcher
    /\ IdleValidate /\ IdleObj /\ IdleRoute
    /\ mt \in RouteInstants
    /\ mout = NoMarketInfo
    /\ IdlePure

NextRoute ==
    \/ \E ticker \in RouteTickers : RouteRequest(ticker)
    \/ RouteFetch1m
    \/ RouteTake1m
    \/ RouteFetch1d
    \/ RouteTake1d
    \/ MockGenerate(1)
    \/ RateCheck(1)
    \/ RateWake(1)
    \/ RateStamp(1)
    \/ RequestStart(1)
    \/ ProviderRaises(1)
    \/ \E s \in ProviderSeries : ProviderAnswers(1, s)
    \/ Failed(1)
    \/ BackoffWake(1)
    \/ SetCache(1)
    \/ SetFallback(1)

SpecRoute == InitRoute /\ [][NextRoute]_vars

----------------------------------------------------------------------------
(* Pure functions, each applied once to arguments drawn from a bounded set *)

\* everything but the function under study stays as it starts
IdleRest ==
    /\ InitFetcher /\ USE_MOCK_DATA = TRUE
    /\ IdleValidate /\ IdleObj /\ IdleRoute /\ IdleMarket

NotCalled == [done |-> FALSE]

----------------------------------------------------------------------------
(* utils/timezone.py.  A datetime is its wall-clock reading in whole hours, *)
(* the zone of its tzinfo ("naive" when it has none) and that tzinfo's UTC  *)
(* offset.  The year is shortened: New York is on standard time (UTC-5)     *)
(* before hour SpringForward (UTC), on daylight time (UTC-4) from then      *)
(* until hour FallBack, and on standard time again afterwards.              *)

MaxHour == 30
SpringForward == 10
FallBack == 20

Dt(wall, tz, off) == [wall |-> wall, tz |-> tz, off |-> off]

NoneDt == Dt(0, "none", 0)

\* the offset America/New_York has at the UTC hour u
EtOffset(u) == IF u < SpringForward THEN 0 - 5
               ELSE IF u < FallBack THEN 0 - 4
               ELSE 0 - 5

\* the UTC hour an aware datetime denotes
UtcHour(dt) == dt.wall - dt.off

\* UTC_TZ.localize(dt)
localize_utc(dt) == Dt(dt.wall, "UTC", 0)

\* dt.astimezone(ET_TZ)
astimezone_et(dt) == Dt(UtcHour(dt) + EtOffset(UtcHour(dt)), "ET", EtOffset(UtcHour(dt)))

\* dt.astimezone(UTC_TZ)
astimezone_utc(dt) == Dt(UtcHour(dt), "UTC", 0)

\* faulty variant: the reading is shifted as if every datetime were UTC
ensure_et_ignores_tzinfo(dt) ==
    IF dt.tz = "none" THEN dt
    ELSE Dt(dt.wall + EtOffset(dt.wall), "ET", EtOffset(dt.wall))

ensure_et(dt) ==
    IF dt.tz = "none" THEN dt
    ELSE astimezone_et(IF dt.tz = "naive" THEN localize_utc(dt) ELSE dt)

ensure_utc(dt) ==
    IF dt.tz = "none" THEN dt
    ELSE astimezone_utc(IF dt.tz = "naive" THEN localize_utc(dt) ELSE dt)

\* naive, UTC, New York (either offset) and Chicago (either offset) datetimes
Datetimes ==
    {NoneDt}
    \cup {Dt(w, "naive", 0) : w \in 0..MaxHour}
    \cup {Dt(w, "UTC", 0) : w \in 0..MaxHour}
    \cup {Dt(w, "ET", o) : w \in 0..MaxHour, o \in {0 - 5, 0 - 4}}
    \cup {Dt(w, "CST", o) : w \in 0..MaxHour, o \in {0 - 6, 0 - 5}}

InitTz ==
    /\ IdleRest
    /\ pin \in [fn : {"ensure_et"}, x : Datetimes]
    /\ pout = NotCalled

TzCall ==
    /\ pin.fn = "ensure_et" /\ ~pout.done
    /\ pout' = [done |-> TRUE,
                et |-> ensure_et(pin.x),
                et_et |-> ensure_et(ensure_et(pin.x)),
                et_utc_et |-> ensure_et(ensure_utc(ensure_et(pin.x)))]
    /\ UNCHANGED <<fetcherVars, validateVars, objVars, routeVars, marketVars, pin>>

NextTz == TzCall

SpecTz == InitTz /\ [][NextTz]_vars

----------------------------------------------------------------------------
(* ReferenceLevelService._calculate_signal.  Prices are whole numbers; a    *)
(* percentage is compared in basis points, without dividing.                *)

\* NEAR_THRESHOLD_PCT = 0.10 percent, in basis points
NEAR_THRESHOLD_BP == 10

MaxDist == 8

Abs(x) == IF x < 0 THEN 0 - x ELSE x

\* faulty variant: a distance of exactly the threshold still counts as near
is_near_inclusive(distance, reference_level) ==
    IF reference_level # 0
    THEN Abs(distance) * 10000 <= NEAR_THRESHOLD_BP * Abs(reference_level)
    ELSE TRUE

\* distance_pct < NEAR_THRESHOLD_PCT, with
\* distance_pct = abs((distance / reference_level) * 100), or 0 for a level of 0
is_near(distance, reference_level) ==
    IF reference_level # 0
    THEN Abs(distance) * 10000 < NEAR_THRESHOLD_BP * Abs(reference_level)
    ELSE TRUE

_calculate_signal(current_price, reference_level) ==
    LET distance == current_price - reference_level
    IN  IF is_near(distance, reference_level) THEN <<"NEAR", 0>>
        ELSE IF distance > 0 THEN <<"ABOVE", 1>>
        ELSE <<"BELOW", 0 - 1>>

SignalLevels == {0, 1000, 2000, 3000}

InitSignal ==
    /\ IdleRest
    /\ \E l \in SignalLevels, d \in (0 - MaxDist)..MaxDist :
          pin = [fn |-> "_calculate_signal", current_price |-> l + d,
                 reference_level |-> l]
    /\ pout = NotCalled

SignalCall ==
    /\ pin.fn = "_calculate_signal" /\ ~pout.done
    /\ pout' = [done |-> TRUE,
                result |-> _calculate_signal(pin.current_price, pin.reference_level)]
    /\ UNCHANGED <<fetcherVars, validateVars, objVars, routeVars, marketVars, pin>>

NextSignal == SignalCall

SpecSignal == InitSignal /\ [][NextSignal]_vars

----------------------------------------------------------------------------
(* api/routes/fibonacci_routes.py: calculate_fibonacci_pivots.  Prices are  *)
(* whole numbers; every returned level is carried as 3000 times its value, *)
(* which makes the division by 3 and the factor 1.618 exact.                *)

\* faulty variant: R2 uses the 2.618 extension instead of 1.618
calculate_fibonacci_pivots_wide_r2(high, low, close) ==
    LET pp == 1000 * (high + low + close)
        range_val == high - low
    IN  [R3 |-> pp + 6000 * range_val,
         R2 |-> pp + 7854 * range_val,
         R1 |-> pp + 3000 * range_val,
         PP |-> pp,
         S1 |-> pp - 3000 * range_val,
         S2 |-> pp - 4854 * range_val,
         S3 |-> pp - 6000 * range_val]

calculate_fibonacci_pivots(high, low, close) ==
    LET pp == 1000 * (high + low + close)
        range_val == high - low
    IN  [R3 |-> pp + 6000 * range_val,
         R2 |-> pp + 4854 * range_val,
         R1 |-> pp + 3000 * range_val,
         PP |-> pp,
         S1 |-> pp - 3000 * range_val,
         S2 |-> pp - 4854 * range_val,
         S3 |-> pp - 6000 * range_val]

FibPrices == {90, 95, 100, 110, 111}

InitFib ==
    /\ IdleRest
    /\ pin \in [fn : {"calculate_fibonacci_pivots"},
                 high : FibPrices, low : FibPrices, close : FibPrices]
    /\ pout = NotCalled

FibCall ==
    /\ pin.fn = "calculate_fibonacci_pivots" /\ ~pout.done
    /\ pout' = [done |-> TRUE,
                result |-> calculate_fibonacci_pivots(pin.high, pin.low, pin.close)]
    /\ UNCHANGED <<fetcherVars, validateVars, objVars, routeVars, marketVars, pin>>

NextFib == FibCall

SpecFib == InitFib /\ [][NextFib]_vars

----------------------------------------------------------------------------
(* services/session_range_service.py.  The 5-minute frame arrives with an   *)
(* Eastern-time index (fetcher_live._normalize_timezone); a timestamp is a  *)
(* calendar date (a day number) and a minute of that day, on days without a *)
(* clock change.                                                            *)

NoneValue == "None"

At5(date, hour, minute) == [date |-> date, minute |-> 60 * hour + minute]

\* a < b and a <= b on timestamps
Before(a, b) == a.date < b.date \/ (a.date = b.date /\ a.minute < b.minute)
NotAfter(a, b) == a = b \/ Before(a, b)

\* timedelta(days = n)
PlusDays(t, n) == [t EXCEPT !.date = @ + n]

SESSIONS ==
    [asian  |-> [start_hour |-> 18, start_min |-> 0, end_hour |-> 2,
                 end_min |-> 0, spans_midnight |-> TRUE],
     london |-> [start_hour |-> 3, start_min |-> 0, end_hour |-> 6,
                 end_min |-> 0, spans_midnight |-> FALSE],
     ny_am  |-> [start_hour |-> 8, start_min |-> 30, end_hour |-> 12,
                 end_min |-> 0, spans_midnight |-> FALSE],
     ny_pm  |-> [start_hour |-> 14, start_min |-> 30, end_hour |-> 16,
                 end_min |-> 0, spans_midnight |-> FALSE]]

SessionKeys == {"asian", "london", "ny_am", "ny_pm"}

SetMax(S) == CHOOSE x \in S : \A y \in S : y <= x
SetMin(S) == CHOOSE x \in S : \A y \in S : x <= y

\* df is the set of rows of the frame, each [ts, High, Low]
_calculate_session_range(df, session_info, target_date, current_time_et, is_previous) ==
    LET spans == session_info.spans_midnight
                   /\ session_info.end_hour < session_info.start_hour
        session_start_date == IF spans THEN target_date - 1 ELSE target_date
        session_end_date == target_date
        session_start == At5(session_start_date, session_info.start_hour,
                             session_info.start_min)
        end_on_date == At5(session_end_date, session_info.end_hour,
                           session_info.end_min)
        session_end == IF spans THEN PlusDays(end_on_date, 1) ELSE end_on_date
        by_date == {b \in df : b.ts.date = session_start_date
                                 \/ b.ts.date = session_end_date}
        session_data == {b \in by_date : NotAfter(session_start, b.ts)
                                          /\ Before(b.ts, session_end)}
    IN  IF session_data = {}
        THEN [high |-> NoneValue, low |-> NoneValue, range |-> NoneValue,
              bar_count |-> 0, is_active |-> FALSE]
        ELSE LET high == SetMax({b.High : b \in session_data})
                 low == SetMin({b.Low : b \in session_data})
             IN  [high |-> high, low |-> low, range |-> high - low,
                  bar_count |-> Cardinality(session_data),
                  is_active |-> IF is_previous THEN FALSE
                                ELSE NotAfter(session_start, current_time_et)
                                       /\ Before(current_time_et, session_end)]

\* the ranges of get_current_session_ranges and get_previous_day_session_ranges
get_current_session_ranges(df, current_time_et) ==
    [k \in SessionKeys |->
        _calculate_session_range(df, SESSIONS[k], current_time_et.date,
                                 current_time_et, FALSE)]

get_previous_day_session_ranges(df, current_time_et) ==
    [k \in SessionKeys |->
        _calculate_session_range(df, SESSIONS[k], current_time_et.date - 1,
                                 current_time_et, TRUE)]

\* today is day 2 of the frame
Today == 2

SessionRow(i, date, hour, minute) ==
    [ts |-> At5(date, hour, minute), High |-> 200 + 10 * i, Low |-> 100 - i]

SessionRows ==
    {SessionRow(1, Today - 1, 17, 55), SessionRow(2, Today - 1, 18, 0),
     SessionRow(3, Today, 1, 55),      SessionRow(4, Today, 2, 0),
     SessionRow(5, Today, 3, 0),       SessionRow(6, Today, 8, 30),
     SessionRow(7, Today, 12, 0),      SessionRow(8, Today, 15, 0)}

SessionNows == {At5(Today, 1, 0), At5(Today, 10, 0), At5(Today, 19, 0)}

InitSession ==
    /\ IdleRest
    /\ pin \in [fn : {"get_current_session_ranges",
                       "get_previous_day_session_ranges"},
                 df : (SUBSET SessionRows) \ {{}},
                 current_time_et : SessionNows]
    /\ pout = NotCalled

CurrentRangesCall ==
    /\ pin.fn = "get_current_session_ranges" /\ ~pout.done
    /\ pout' = [done |-> TRUE,
                ranges |-> get_current_session_ranges(pin.df, pin.current_time_et)]
    /\ UNCHANGED <<fetcherVars, validateVars, objVars, routeVars, marketVars, pin>>

PreviousRangesCall ==
    /\ pin.fn = "get_previous_day_session_ranges" /\ ~pout.done
    /\ pout' = [done |-> TRUE,
                ranges |-> get_previous_day_session_ranges(pin.df, pin.current_time_et)]
    /\ UNCHANGED <<fetcherVars, validateVars, objVars, routeVars, marketVars, pin>>

NextSession == CurrentRangesCall \/ PreviousRangesCall

SpecSession == InitSession /\ [][NextSession]_vars

----------------------------------------------------------------------------
(* analysis/reference_levels.py and services/reference_level_service.py.    *)
(* A frame is a sequence of rows [ts, Open, High, Low] in index order, with *)
(* Eastern-time timestamps as in the session ranges; day 0 is a Monday and  *)
(* the current month begins on day FirstOfMonth.  An optional price is      *)
(* [ok, v]; an optional frame is [ok, df].                                  *)

NoLevel == [ok |-> FALSE, v |-> 0]
Some(x) == [ok |-> TRUE, v |-> x]
NoData == [ok |-> FALSE, df |-> <<>>]
Data(df) == [ok |-> TRUE, df |-> df]

FirstOfMonth == 3

\* datetime.weekday(): 0 = Monday
weekday(t) == t.date % 7

\* A datetime is kept as its wall-clock reading.  The index of df_et reads in
\* ET_TZ, and so does a current_time made by At5; a current_time made by
\* AtUtc carries UTC_TZ, as get_current_time_utc() returns it.
AtUtc(date, hour, minute) == [date |-> date, minute |-> 60 * hour + minute, tz |-> "UTC"]

\* hours by which America/New_York (standard time) is behind UTC
ET_BEHIND_UTC == 5

\* the ET reading of the instant t denotes: what a comparison with the
\* ET-aware index of df_et sees
as_et(t) ==
    IF "tz" \notin DOMAIN t THEN t
    ELSE IF t.minute >= 60 * ET_BEHIND_UTC
         THEN [date |-> t.date, minute |-> t.minute - 60 * ET_BEHIND_UTC]
         ELSE [date |-> t.date - 1, minute |-> t.minute + 1440 - 60 * ET_BEHIND_UTC]

\* current_time.replace(hour=h, minute=m, second=0, microsecond=0): the wall
\* clock changes, tzinfo stays
replace_time(t, h, m) == [t EXCEPT !.minute = 60 * h + m]

\* the rows of df with index >= t, and with t0 <= index < t1
AtOrAfter(df, t) == SelectSeq(df, LAMBDA b : NotAfter(as_et(t), b.ts))
Between(df, t0, t1) == SelectSeq(df, LAMBDA b : NotAfter(t0, b.ts) /\ Before(b.ts, t1))

\* df.iloc[-k] for 1 <= k <= len(df), and df.iloc[a:b] for 0 <= a, b <= len(df)
iloc_back(df, k) == df[Len(df) - k + 1]
iloc_slice(df, a, b) == IF a < b THEN SubSeq(df, a + 1, b) ELSE <<>>

Column(df, c) == {df[i][c] : i \in 1..Len(df)}

\* the first open at or after the anchor, else the open of the first row
first_open_from(df, anchor) ==
    IF df = <<>> THEN NoLevel
    ELSE IF AtOrAfter(df, anchor) # <<>> THEN Some(AtOrAfter(df, anchor)[1].Open)
    ELSE Some(df[1].Open)

\* the first open at or after the anchor, else the open of the most recent row
near_open_from(df, anchor) ==
    IF df = <<>> THEN NoLevel
    ELSE IF AtOrAfter(df, anchor) # <<>> THEN Some(AtOrAfter(df, anchor)[1].Open)
    ELSE Some(iloc_back(df, 1).Open)

calculate_daily_open(df, current_time) ==
    first_open_from(df, replace_time(current_time, 0, 0))

calculate_weekly_open(df, current_time) ==
    first_open_from(df, replace_time(PlusDays(current_time, 0 - weekday(current_time)), 0, 0))

calculate_monthly_open(df, current_time) ==
    first_open_from(df, At5(FirstOfMonth, 0, 0))

calculate_7am_open(df, current_time) ==
    near_open_from(df, replace_time(current_time, 7, 0))

calculate_830am_open(df, current_time) ==
    near_open_from(df, replace_time(current_time, 8, 30))

calculate_hourly_open(df, hours_back) ==
    IF df = <<>> THEN NoLevel
    ELSE IF hours_back \in 1..Len(df) THEN Some(iloc_back(df, hours_back).Open)
    ELSE Some(df[1].Open)

calculate_4hourly_open(df) ==
    IF df = <<>> THEN NoLevel
    ELSE IF Len(df) >= 4 THEN Some(iloc_back(df, 4).Open)
    ELSE Some(df[1].Open)

calculate_15min_open(df) ==
    IF df = <<>> THEN NoLevel ELSE Some(df[1].Open)

calculate_previous_hourly_open(df, current_time) ==
    IF df = <<>> THEN NoLevel
    ELSE IF Len(df) >= 2 THEN Some(iloc_back(df, 2).Open)
    ELSE Some(iloc_back(df, 1).Open)

\* (high, low) as a pair of optional prices
calculate_prev_day_high_low(df) ==
    IF df = <<>> THEN <<NoLevel, NoLevel>>
    ELSE IF Len(df) >= 2
         THEN <<Some(iloc_back(df, 2).High), Some(iloc_back(df, 2).Low)>>
    ELSE <<Some(SetMax(Column(df, "High"))), Some(SetMin(Column(df, "Low")))>>

\* df.iloc[-13:-6]
prev_week_data(df) == iloc_slice(df, Max(Len(df) - 13, 0), Max(Len(df) - 6, 0))

calculate_prev_week_high(df) ==
    IF df = <<>> THEN NoLevel
    ELSE IF Len(df) >= 7 /\ prev_week_data(df) # <<>>
         THEN Some(SetMax(Column(prev_week_data(df), "High")))
    ELSE Some(SetMax(Column(df, "High")))

calculate_prev_week_low(df) ==
    IF df = <<>> THEN NoLevel
    ELSE IF Len(df) >= 7 /\ prev_week_data(df) # <<>>
         THEN Some(SetMin(Column(prev_week_data(df), "Low")))
    ELSE Some(SetMin(Column(df, "Low")))

calculate_week_high_low(df) ==
    IF df = <<>> THEN <<NoLevel, NoLevel>>
    ELSE LET week_data == IF Len(df) >= 5 THEN iloc_slice(df, Len(df) - 5, Len(df))
                          ELSE df
         IN  <<Some(SetMax(Column(week_data, "High"))),
               Some(SetMin(Column(week_data, "Low")))>>

\* utils/timezone.py
get_candle_open_time(current_time, minutes) ==
    At5(current_time.date, 0, (current_time.minute \div minutes) * minutes)

get_week_start(current_time) ==
    PlusDays(replace_time(current_time, 0, 0), 0 - weekday(current_time))

\* t - timedelta(hours=1)
MinusHour(t) ==
    IF t.minute >= 60 THEN [t EXCEPT !.minute = @ - 60]
    ELSE [date |-> t.date - 1, minute |-> t.minute + 1380]

\* the helpers of the same names that reference_level_service.py defines for
\* itself (lines 307-365); these are the ones calculate_all_levels refers to
service_calculate_2hourly_open(hourly_hist, current_time) ==
    LET candle_2h_time == get_candle_open_time(current_time, 120)
        two_hourly_data == AtOrAfter(hourly_hist, candle_2h_time)
        nearby_data == SelectSeq(hourly_hist, LAMBDA b : NotAfter(b.ts, candle_2h_time))
    IN  IF two_hourly_data # <<>> THEN Some(two_hourly_data[1].Open)
        ELSE IF nearby_data # <<>> THEN Some(iloc_back(nearby_data, 1).Open)
        ELSE NoLevel

service_calculate_previous_hourly_open(hourly_hist, current_time) ==
    LET candle_1h_time == get_candle_open_time(current_time, 60)
        prev_1h_time == MinusHour(candle_1h_time)
        prev_hourly_data == Between(hourly_hist, prev_1h_time, candle_1h_time)
    IN  IF prev_hourly_data # <<>> THEN Some(prev_hourly_data[1].Open) ELSE NoLevel

service_calculate_prev_week_high(daily_hist, current_time) ==
    LET current_week_start == get_week_start(current_time)
        prev_week_start == PlusDays(current_week_start, 0 - 7)
        data == Between(daily_hist, prev_week_start, current_week_start)
    IN  IF data # <<>> THEN Some(SetMax(Column(data, "High"))) ELSE NoLevel

service_calculate_prev_week_low(daily_hist, current_time) ==
    LET current_week_start == get_week_start(current_time)
        prev_week_start == PlusDays(current_week_start, 0 - 7)
        data == Between(daily_hist, prev_week_start, current_week_start)
    IN  IF data # <<>> THEN Some(SetMin(Column(data, "Low"))) ELSE NoLevel

\* the sixteen levels in dictionary order, each with the function handed to
\* _safe_calculate, the frame it is given, and whether current_time is passed
LevelOrder ==
    <<"weekly_open", "monthly_open", "daily_open_midnight", "ny_open_0830",
      "ny_open_0700", "four_hour_open", "two_hour_open", "hourly_open",
      "previous_hourly_open", "fifteen_min_open", "previous_day_high",
      "previous_day_low", "previous_week_high", "previous_week_low",
      "weekly_high", "weekly_low">>

LevelKeys == {LevelOrder[i] : i \in 1..Len(LevelOrder)}

LevelCall(func, data, with_time, label) ==
    [func |-> func, data |-> data, with_time |-> with_time, label |-> label]

LevelCalls ==
    [weekly_open |-> LevelCall("calculate_weekly_open", "hourly", TRUE, "Weekly Open"),
     monthly_open |-> LevelCall("calculate_monthly_open", "hourly", TRUE, "Monthly Open"),
     daily_open_midnight |-> LevelCall("calculate_daily_open", "hourly", TRUE, "Midnight Open"),
     ny_open_0830 |-> LevelCall("calculate_830am_open", "hourly", TRUE, "NY Open (08:30)"),
     ny_open_0700 |-> LevelCall("calculate_7am_open", "hourly", TRUE, "Pre-NY Open (07:00)"),
     four_hour_open |-> LevelCall("calculate_4hourly_open", "hourly", TRUE, "4H Open"),
     two_hour_open |-> LevelCall("calculate_2hourly_open", "hourly", TRUE, "2H Open"),
     hourly_open |-> LevelCall("calculate_hourly_open", "hourly", TRUE, "1H Open"),
     previous_hourly_open |-> LevelCall("calculate_previous_hourly_open", "hourly", TRUE, "Previous Hour Open"),
     fifteen_min_open |-> LevelCall("calculate_15min_open", "minute", TRUE, "15min Open"),
     previous_day_high |-> LevelCall("lambda_prev_day_high", "daily", FALSE, "Previous Day High"),
     previous_day_low |-> LevelCall("lambda_prev_day_low", "daily", FALSE, "Previous Day Low"),
     previous_week_high |-> LevelCall("calculate_prev_week_high", "daily", TRUE, "Previous Week High"),
     previous_week_low |-> LevelCall("calculate_prev_week_low", "daily", TRUE, "Previous Week Low"),
     weekly_high |-> LevelCall("lambda_week_high", "daily", FALSE, "Weekly High"),
     weekly_low |-> LevelCall("lambda_week_low", "daily", FALSE, "Weekly Low")]

\* the least and greatest number of positional arguments each function takes
Params ==
    [calculate_weekly_open |-> <<1, 2>>, calculate_monthly_open |-> <<1, 2>>,
     calculate_daily_open |-> <<2, 2>>, calculate_830am_open |-> <<2, 2>>,
     calculate_7am_open |-> <<2, 2>>, calculate_4hourly_open |-> <<1, 1>>,
     calculate_2hourly_open |-> <<2, 2>>, calculate_hourly_open |-> <<1, 2>>,
     calculate_previous_hourly_open |-> <<2, 2>>, calculate_15min_open |-> <<1, 1>>,
     lambda_prev_day_high |-> <<1, 1>>, lambda_prev_day_low |-> <<1, 1>>,
     calculate_prev_week_high |-> <<2, 2>>, calculate_prev_week_low |-> <<2, 2>>,
     lambda_week_high |-> <<1, 1>>, lambda_week_low |-> <<1, 1>>]

\* func(*args) for a call that binds; an omitted current_time is the clock's
\* reading now, an omitted hours_back is 1
Apply(func, args, now) ==
    LET df == args[1]
        t == IF Len(args) >= 2 THEN args[2] ELSE now
    IN  CASE func = "calculate_weekly_open" -> calculate_weekly_open(df, t)
          [] func = "calculate_monthly_open" -> calculate_monthly_open(df, t)
          [] func = "calculate_daily_open" -> calculate_daily_open(df, t)
          [] func = "calculate_830am_open" -> calculate_830am_open(df, t)
          [] func = "calculate_7am_open" -> calculate_7am_open(df, t)
          [] func = "calculate_4hourly_open" -> calculate_4hourly_open(df)
          [] func = "calculate_2hourly_open" -> service_calculate_2hourly_open(df, t)
          [] func = "calculate_hourly_open" ->
                 calculate_hourly_open(df, IF Len(args) >= 2 THEN args[2] ELSE 1)
          [] func = "calculate_previous_hourly_open" ->
                 service_calculate_previous_hourly_open(df, t)
          [] func = "calculate_15min_open" -> calculate_15min_open(df)
          [] func = "lambda_prev_day_high" -> calculate_prev_day_high_low(df)[1]
          [] func = "lambda_prev_day_low" -> calculate_prev_day_high_low(df)[2]
          [] func = "calculate_prev_week_high" -> service_calculate_prev_week_high(df, t)
          [] func = "calculate_prev_week_low" -> service_calculate_prev_week_low(df, t)
          [] func = "lambda_week_high" -> calculate_week_high_low(df)[1]
          [] func = "lambda_week_low" -> calculate_week_high_low(df)[2]

\* func(*args) raises TypeError when the arguments do not bind to the
\* parameters; _safe_calculate turns any exception into None
_safe_calculate(func, args, now) ==
    IF Len(args) < Params[func][1] \/ Len(args) > Params[func][2] THEN NoLevel
    ELSE Apply(func, args, now)

\* the levels dictionary of calculate_all_levels (lines 114-163); the frames
\* are optional frames, hourly_data and daily_data present
reference_levels_of(hourly_data, daily_data, minute_data, current_time) ==
    [k \in LevelKeys |->
        LET c == LevelCalls[k]
            data == CASE c.data = "hourly" -> hourly_data
                      [] c.data = "daily" -> daily_data
                      [] c.data = "minute" -> minute_data
            args == IF c.with_time THEN <<data.df, current_time, c.label>>
                    ELSE <<data.df, c.label>>
        IN  IF k = "fifteen_min_open" /\ ~minute_data.ok THEN NoLevel
            ELSE _safe_calculate(c.func, args, current_time)]

NoSignal == [ok |-> FALSE, price |-> 0, distance |-> 0, proximity |-> "", signal |-> 0]

signal_of(current_price, level) ==
    IF ~level.ok THEN NoSignal
    ELSE LET ps == _calculate_signal(current_price, level.v)
         IN  [ok |-> TRUE, price |-> level.v, distance |-> current_price - level.v,
              proximity |-> ps[1], signal |-> ps[2]]

NoClosest == [ok |-> FALSE, level |-> "", price |-> 0, distance |-> 0, proximity |-> ""]

\* the loop of lines 170-197 from position i on, with the closest level so far
RECURSIVE closest_from(_, _, _, _)
closest_from(i, levels, current_price, best) ==
    IF i > Len(LevelOrder) THEN best
    ELSE LET k == LevelOrder[i]
             level == levels[k]
             distance == current_price - level.v
         IN  IF ~level.ok THEN closest_from(i + 1, levels, current_price, best)
             ELSE IF ~best.ok \/ Abs(distance) < Abs(best.distance)
                  THEN closest_from(i + 1, levels, current_price,
                           [ok |-> TRUE, level |-> k, price |-> level.v,
                            distance |-> distance,
                            proximity |-> _calculate_signal(current_price, level.v)[1]])
             ELSE closest_from(i + 1, levels, current_price, best)

ErrorResponse(msg) ==
    [kind |-> "error", error |-> msg, reference_levels |-> [k \in LevelKeys |-> NoLevel],
     signals |-> [k \in LevelKeys |-> NoSignal], closest_level |-> NoClosest]

\* calculate_all_levels, given what get_current_price and the four fetches
\* returned
calculate_all_levels(current_price, hourly_data, daily_data, minute_data, weekly_data, current_time) ==
    IF ~current_price.ok THEN ErrorResponse("Unable to fetch current price")
    ELSE IF ~hourly_data.ok \/ ~daily_data.ok
         THEN ErrorResponse("Unable to fetch market data")
    ELSE LET levels == reference_levels_of(hourly_data, daily_data, minute_data,
                                           current_time)
         IN  [kind |-> "success", error |-> "",
              reference_levels |-> levels,
              signals |-> [k \in LevelKeys |-> signal_of(current_price.v, levels[k])],
              closest_level |-> closest_from(1, levels, current_price.v, NoClosest)]

(* inputs *)

MaxDaily == 14

LevelRow(date, hour, minute, open, high, low) ==
    [ts |-> At5(date, hour, minute), Open |-> open, High |-> high, Low |-> low]

\* rows before the month, in the month before the week, in the week before
\* the day, and on day 9 before 07:00, between 07:00 and 08:30, after 08:30
AnchorRows ==
    <<LevelRow(1, 12, 0, 101, 106, 96), LevelRow(4, 10, 0, 102, 107, 97),
      LevelRow(8, 10, 0, 103, 108, 98), LevelRow(9, 6, 0, 104, 109, 99),
      LevelRow(9, 8, 0, 105, 110, 100), LevelRow(9, 9, 0, 106, 111, 101)>>

RECURSIVE Pick(_, _, _)
Pick(rows, I, i) ==
    IF i > Len(rows) THEN <<>>
    ELSE (IF i \in I THEN <<rows[i]>> ELSE <<>>) \o Pick(rows, I, i + 1)

AnchorFrames == {Pick(AnchorRows, I, 1) : I \in (SUBSET (1..Len(AnchorRows))) \ {{}}}

\* n hourly rows with opens 100, 101, ... ending at last_hour of day 9; with a
\* gap, the last row comes two hours after the one before it
HourlyFrame(n, last_hour, gap) ==
    [i \in 1..n |->
        LevelRow(9, last_hour - (n - i) - (IF gap /\ i < n THEN 1 ELSE 0), 0,
                 99 + i, 104 + i, 94 + i)]

HourlyFrames ==
    {HourlyFrame(n, h, g) : n \in 1..5, h \in {7, 8, 9}, g \in BOOLEAN}

Shape(pattern, i, n) ==
    CASE pattern = "up" -> i
      [] pattern = "down" -> 0 - i
      [] pattern = "peak" -> IF i <= n + 1 - i THEN i ELSE n + 1 - i

\* n daily rows on consecutive days ending on last_date
DailyFrame(n, pattern, last_date) ==
    [i \in 1..n |->
        LevelRow(last_date - (n - i), 0, 0, 150, 200 + Shape(pattern, i, n),
                 100 - Shape(pattern, i, n))]

DailyFrames ==
    {DailyFrame(n, p, d) : n \in 1..MaxDaily, p \in {"up", "down", "peak"}, d \in {16, 21}}

InitLevels ==
    /\ IdleRest
    /\ pout = NotCalled
    /\ \/ pin \in [fn : {"periodic_opens"}, df : AnchorFrames,
                   current_time : {At5(9, 10, 30), At5(4, 10, 30)}]
       \/ pin \in [fn : {"hourly_opens"}, df : HourlyFrames,
                   current_time : {At5(9, 9, 30), At5(9, 10, 30), At5(9, 12, 30)}]
       \/ \E df \in DailyFrames :
             pin = [fn |-> "extrema", df |-> df,
                    current_time |-> At5(df[Len(df)].ts.date, 10, 30)]
       \/ pin \in [fn : {"clock_anchors"}, df : AnchorFrames,
                   current_time : {At5(9, 10, 30), AtUtc(9, 15, 30), AtUtc(10, 3, 30)}]
       \/ pin \in [fn : {"calculate_all_levels"},
                   current_price : {NoLevel, Some(104)},
                   hourly_data : {NoData, Data(HourlyFrame(5, 9, FALSE))},
                   daily_data : {NoData, Data(DailyFrame(3, "up", 9))},
                   minute_data : {NoData, Data(HourlyFrame(2, 9, FALSE))},
                   weekly_data : {NoData, Data(DailyFrame(1, "up", 7))},
                   current_time : {At5(9, 9, 30), At5(9, 12, 30)}]

\* the five anchored opens of analysis/reference_levels.py, and the same
\* levels as calculate_all_levels obtains them
PeriodicOpensCall ==
    /\ pin.fn = "periodic_opens" /\ ~pout.done
    /\ pout' = [done |-> TRUE,
                weekly_open |-> calculate_weekly_open(pin.df, pin.current_time),
                monthly_open |-> calculate_monthly_open(pin.df, pin.current_time),
                daily_open_midnight |-> calculate_daily_open(pin.df, pin.current_time),
                ny_open_0700 |-> calculate_7am_open(pin.df, pin.current_time),
                ny_open_0830 |-> calculate_830am_open(pin.df, pin.current_time),
                levels |-> reference_levels_of(Data(pin.df), Data(pin.df), NoData,
                                               pin.current_time)]
    /\ UNCHANGED <<fetcherVars, validateVars, objVars, routeVars, marketVars, pin>>

\* the hourly opens: both functions of analysis/reference_levels.py, the
\* service's own calculate_previous_hourly_open, and the two levels as
\* calculate_all_levels obtains them
HourlyOpensCall ==
    /\ pin.fn = "hourly_opens" /\ ~pout.done
    /\ pout' = [done |-> TRUE,
                hourly_open |-> calculate_hourly_open(pin.df, 1),
                previous_hourly_open |->
                    calculate_previous_hourly_open(pin.df, pin.current_time),
                service_previous_hourly_open |->
                    service_calculate_previous_hourly_open(pin.df, pin.current_time),
                levels |-> reference_levels_of(Data(pin.df), Data(pin.df), NoData,
                                               pin.current_time)]
    /\ UNCHANGED <<fetcherVars, validateVars, objVars, routeVars, marketVars, pin>>

\* the extrema: the functions of analysis/reference_levels.py, the service's
\* own previous-week helpers, and the levels as calculate_all_levels obtains
\* them
ExtremaCall ==
    /\ pin.fn = "extrema" /\ ~pout.done
    /\ pout' = [done |-> TRUE,
                prev_day |-> calculate_prev_day_high_low(pin.df),
                prev_week_high |-> calculate_prev_week_high(pin.df),
                prev_week_low |-> calculate_prev_week_low(pin.df),
                week |-> calculate_week_high_low(pin.df),
                service_prev_week_high |->
                    service_calculate_prev_week_high(pin.df, pin.current_time),
                service_prev_week_low |->
                    service_calculate_prev_week_low(pin.df, pin.current_time),
                levels |-> reference_levels_of(Data(pin.df), Data(pin.df), NoData,
                                               pin.current_time)]
    /\ UNCHANGED <<fetcherVars, validateVars, objVars, routeVars, marketVars, pin>>

\* the three levels anchored at a clock time of the current day, with the
\* anchors (midnight, seven_am, eight_thirty_am) the functions compare the
\* index against
ClockAnchorsCall ==
    /\ pin.fn = "clock_anchors" /\ ~pout.done
    /\ pout' = [done |-> TRUE,
                midnight |-> as_et(replace_time(pin.current_time, 0, 0)),
                seven_am |-> as_et(replace_time(pin.current_time, 7, 0)),
                eight_thirty_am |-> as_et(replace_time(pin.current_time, 8, 30)),
                daily_open_midnight |-> calculate_daily_open(pin.df, pin.current_time),
                ny_open_0700 |-> calculate_7am_open(pin.df, pin.current_time),
                ny_open_0830 |-> calculate_830am_open(pin.df, pin.current_time)]
    /\ UNCHANGED <<fetcherVars, validateVars, objVars, routeVars, marketVars, pin>>

AllLevelsCall ==
    /\ pin.fn = "calculate_all_levels" /\ ~pout.done
    /\ pout' = [done |-> TRUE,
                response |-> calculate_all_levels(pin.current_price, pin.hourly_data,
                                 pin.daily_data, pin.minute_data, pin.weekly_data,
                                 pin.current_time)]
    /\ UNCHANGED <<fetcherVars, validateVars, objVars, routeVars, marketVars, pin>>

NextLevels ==
    \/ PeriodicOpensCall
    \/ HourlyOpensCall
    \/ ExtremaCall
    \/ ClockAnchorsCall
    \/ AllLevelsCall

SpecLevels == InitLevels /\ [][NextLevels]_vars

----------------------------------------------------------------------------
(* api/routes/block_routes.py.  An instant is an Eastern-time clock hour, a *)
(* second within it and a microsecond; the end of block 7 is second 3600 of *)
(* its hour.  The price and frame fetches of the routes are left out: the   *)
(* three routes are followed from the point where both have answered.       *)

BLOCKS_PER_HOUR == 7

Instant(hour, sec, us) == [hour |-> hour, s |-> sec, us |-> us]

\* a >= b on instants
AtLeast(a, b) ==
    LET sa == 3600 * a.hour + a.s
        sb == 3600 * b.hour + b.s
    IN  sa > sb \/ (sa = sb /\ a.us >= b.us)

\* hour_start + timedelta(minutes = i * MINUTES_PER_BLOCK): i sevenths of an
\* hour, which timedelta rounds to the nearest microsecond
block_offset(hour, i) ==
    Instant(hour, (3600 * i) \div BLOCKS_PER_HOUR,
            ((((3600 * i) % BLOCKS_PER_HOUR) * 2000000) + BLOCKS_PER_HOUR)
                \div (2 * BLOCKS_PER_HOUR))

\* faulty variant: a block is complete only after its end has passed
calculate_block_boundaries_strict(current_time_et) ==
    [n \in 1..BLOCKS_PER_HOUR |->
        [block_num |-> n,
         start_time |-> block_offset(current_time_et.hour, n - 1),
         end_time |-> block_offset(current_time_et.hour, n),
         is_complete |-> current_time_et # block_offset(current_time_et.hour, n)
                           /\ AtLeast(current_time_et,
                                      block_offset(current_time_et.hour, n))]]

calculate_block_boundaries(current_time_et) ==
    [n \in 1..BLOCKS_PER_HOUR |->
        [block_num |-> n,
         start_time |-> block_offset(current_time_et.hour, n - 1),
         end_time |-> block_offset(current_time_et.hour, n),
         is_complete |-> AtLeast(current_time_et,
                                 block_offset(current_time_et.hour, n))]]

\* the loop of get_hourly_blocks (lines 187-216): the number of complete
\* blocks, and the first block that is not complete, else the last one
get_hourly_blocks(current_time_et) ==
    LET blocks_info == calculate_block_boundaries(current_time_et)
        complete == {n \in 1..BLOCKS_PER_HOUR : blocks_info[n].is_complete}
        open == (1..BLOCKS_PER_HOUR) \ complete
    IN  [blocks_completed |-> Cardinality(complete),
         current_block |-> IF open # {} THEN blocks_info[SetMin(open)]
                           ELSE blocks_info[BLOCKS_PER_HOUR],
         blocks |-> blocks_info]

\* faulty variant: a block also contains its end
containing_block_closed(blocks_info, current_time_et) ==
    LET holds == {n \in 1..BLOCKS_PER_HOUR :
                     /\ AtLeast(current_time_et, blocks_info[n].start_time)
                     /\ AtLeast(blocks_info[n].end_time, current_time_et)}
    IN  IF holds # {} THEN blocks_info[SetMin(holds)]
        ELSE blocks_info[BLOCKS_PER_HOUR]

\* the search of lines 276-283 and 345-353: the first block with
\* start_time <= now < end_time, else the last one
containing_block(blocks_info, current_time_et) ==
    LET holds == {n \in 1..BLOCKS_PER_HOUR :
                     /\ AtLeast(current_time_et, blocks_info[n].start_time)
                     /\ ~AtLeast(current_time_et, blocks_info[n].end_time)}
    IN  IF holds # {} THEN blocks_info[SetMin(holds)]
        ELSE blocks_info[BLOCKS_PER_HOUR]

get_current_block(current_time_et) ==
    LET info == containing_block(calculate_block_boundaries(current_time_et),
                                 current_time_et)
    IN  [current_block |-> info.block_num, block_start |-> info.start_time,
         block_end |-> info.end_time]

get_blocks_summary(current_time_et) ==
    LET blocks_info == calculate_block_boundaries(current_time_et)
    IN  [blocks_completed |->
             Cardinality({n \in 1..BLOCKS_PER_HOUR : blocks_info[n].is_complete}),
         current_block |-> containing_block(blocks_info, current_time_et).block_num]

BlockHours == {10, 11}

\* the block boundaries of an hour, the microsecond before and after each,
\* twenty minutes past, and the last microsecond of the hour
BlockInstants ==
    UNION {{block_offset(h, i) : i \in 0..(BLOCKS_PER_HOUR - 1)}
           \cup {[block_offset(h, i) EXCEPT !.us = @ + 1] : i \in 0..(BLOCKS_PER_HOUR - 1)}
           \cup {[block_offset(h, i) EXCEPT !.us = @ - 1] : i \in 1..(BLOCKS_PER_HOUR - 1)}
           \cup {Instant(h, 1200, 0), Instant(h, 3599, 999999)} : h \in BlockHours}

NotAsked == [asked |-> FALSE]

InitBlocks ==
    /\ IdleRest
    /\ pin \in [fn : {"blocks"}, now : BlockInstants]
    /\ pout = [done |-> FALSE, hourly |-> NotAsked, current |-> NotAsked,
               summary |-> NotAsked, seen |-> NotAsked]

\* the clock moves on; responses of the earlier instant are gone, the last
\* count of complete blocks a client saw is kept
Advance ==
    /\ pin.fn = "blocks"
    /\ \E t \in BlockInstants :
          /\ t # pin.now /\ AtLeast(t, pin.now)
          /\ pin' = [pin EXCEPT !.now = t]
    /\ pout' = [pout EXCEPT !.hourly = NotAsked, !.current = NotAsked,
                            !.summary = NotAsked]
    /\ UNCHANGED <<fetcherVars, validateVars, objVars, routeVars, marketVars>>

HourlyBlocksCall ==
    /\ pin.fn = "blocks" /\ ~pout.hourly.asked
    /\ LET r == get_hourly_blocks(pin.now)
       IN  pout' = [pout EXCEPT
                      !.done = TRUE,
                      !.hourly = [asked |-> TRUE, at |-> pin.now, r |-> r],
                      !.seen = [asked |-> TRUE, at |-> pin.now,
                                blocks_completed |-> r.blocks_completed]]
    /\ UNCHANGED <<fetcherVars, validateVars, objVars, routeVars, marketVars, pin>>

CurrentBlockCall ==
    /\ pin.fn = "blocks" /\ ~pout.current.asked
    /\ pout' = [pout EXCEPT
                  !.done = TRUE,
                  !.current = [asked |-> TRUE, at |-> pin.now,
                               r |-> get_current_block(pin.now)]]
    /\ UNCHANGED <<fetcherVars, validateVars, objVars, routeVars, marketVars, pin>>

BlocksSummaryCall ==
    /\ pin.fn = "blocks" /\ ~pout.summary.asked
    /\ LET r == get_blocks_summary(pin.now)
       IN  pout' = [pout EXCEPT
                      !.done = TRUE,
                      !.summary = [asked |-> TRUE, at |-> pin.now, r |-> r],
                      !.seen = [asked |-> TRUE, at |-> pin.now,
                                blocks_completed |-> r.blocks_completed]]
    /\ UNCHANGED <<fetcherVars, validateVars, objVars, routeVars, marketVars, pin>>

NextBlocks == Advance \/ HourlyBlocksCall \/ CurrentBlockCall \/ BlocksSummaryCall

SpecBlocks == InitBlocks /\ [][NextBlocks]_vars

----------------------------------------------------------------------------
(* Two fetch_data calls one after the other, on a cache that a direct       *)
(* DataCache.set may have filled before.  The first call is made by caller  *)
(* 1, who keeps its result; caller 2 makes the next call once caller 1 has  *)
(* returned.                                                                *)

RecoverRetries == {0, 1, DefaultMaxRetries}
\* far enough for an entry to grow older than twice the TTL
MaxRecoverClock == 200
RecoverSeries == {<<G1>>, <<G1, G2>>}

\* cache.set(key, df) called directly, as test_cached_fetcher.py does
DirectSet(key, df) ==
    /\ calls = 0
    /\ \A t \in Threads : th[t].pc = "idle"
    /\ key \notin DOMAIN cache
    /\ cache' = (key :> [timestamp |-> clock, data |-> df]) @@ cache
    /\ fallback' = (key :> df) @@ fallback
    /\ lastGood' = (key :> df) @@ lastGood
    /\ UNCHANGED <<USE_MOCK_DATA, clock, last_request_time, th, calls, reqLast,
                   harnessVars>>

\* time passes while no call is running
Wait(d) ==
    /\ \A t \in Threads : th[t].pc \in {"idle", "done"}
    /\ th[2].pc = "idle"
    /\ clock + d <= MaxRecoverClock
    /\ clock' = clock + d
    /\ UNCHANGED <<USE_MOCK_DATA, cache, fallback, last_request_time, th, calls,
                   lastGood, reqLast, harnessVars>>

FirstCall ==
    /\ th[2].pc = "idle"
    /\ \E max_retries \in RecoverRetries, use_cache \in BOOLEAN :
          CallFetch(1, "NQ=F", "30m", max_retries, use_cache)

NextCall ==
    /\ th[1].pc = "done"
    /\ \E max_retries \in RecoverRetries, use_cache \in BOOLEAN :
          CallFetch(2, "NQ=F", "30m", max_retries, use_cache)

FetchStep(t) ==
    \/ MockGenerate(t)
    \/ RateCheck(t)
    \/ RateWake(t)
    \/ RateStamp(t)
    \/ RequestStart(t)
    \/ ProviderRaises(t)
    \/ \E s \in RecoverSeries : ProviderAnswers(t, s)
    \/ Failed(t)
    \/ BackoffWake(t)
    \/ SetCache(t)
    \/ SetFallback(t)

NextRecover ==
    \/ DirectSet(cache_key("NQ=F", "30m"), <<G2, G1>>)
    \/ \E d \in ClockSteps : Wait(d)
    \/ ClearExpired
    \/ FirstCall
    \/ NextCall
    \/ \E t \in Threads : FetchStep(t)

SpecRecover == Init /\ [][NextRecover]_vars

----------------------------------------------------------------------------
(* Properties *)

FetchDone(f) == f.pc = "done" /\ f.op = "fetch" /\ f.interval \in FETCH_CONFIG

KeyOf(f) == cache_key(f.ticker, f.interval)

\* the interval a cache key was built from
IntervalOf(key) ==
    CHOOSE i \in FETCH_CONFIG : \E tk \in Tickers : cache_key(tk, i) = key

\* the rejection rule as the specification words it
SpecMinBars(interval) ==
    CASE interval = "1m" -> 60 [] interval = "5m" -> 12 [] interval = "15m" -> 4
      [] interval = "30m" -> 2 [] interval = "1h" -> 24 [] interval = "1d" -> 5
      [] interval = "1wk" -> 1

Present(x) == x # NaN

Inconsistent(r) ==
    /\ \A c \in {"Open", "High", "Low", "Close"} : Present(r[c])
    /\ \/ r.High < r.Low \/ r.High < r.Open \/ r.High < r.Close
       \/ r.Low > r.Open \/ r.Low > r.Close

SpecRejects(df, interval) ==
    \/ Len(df) < SpecMinBars(interval)
    \/ interval \notin {"1d", "1wk"} /\ \E i \in 1..Len(df) : Inconsistent(df[i])
    \/ \E i \in 1..Len(df) : \E c \in Columns : ~Present(df[i][c])

\* what a call whose attempts all failed has to return
FallbackOrNone(key) ==
    IF key \in DOMAIN lastGood THEN DfResult(lastGood[key]) ELSE None

\* C1: a fetch_data call with use_cache=True that finds the entry of its key
\* younger than the TTL returns that entry's series and makes no external
\* request; one that finds it aged TTL or more goes to the provider, and makes
\* exactly one request when the provider answers the first with a valid series.
C1_CacheWithinTTL ==
    \A t \in Threads :
        LET f == th[t]
        IN  (FetchDone(f) /\ f.use_cache /\ Present(f.entryAge)) =>
               /\ f.entryAge < CACHE_TTL =>
                     (f.ext = 0 /\ f.result = DfResult(f.entryData))
               /\ (f.entryAge >= CACHE_TTL /\ ~USE_MOCK_DATA /\ f.max_retries > 0) =>
                     /\ f.ext >= 1
                     /\ f.first = "valid" =>
                           (f.ext = 1 /\ f.via = "fresh" /\ f.result = DfResult(f.df))

C1_Witness ==
    \E t \in Threads :
        /\ FetchDone(th[t]) /\ th[t].use_cache
        /\ th[t].entryAge = CACHE_TTL - 1
        /\ th[t].via = "hit" /\ th[t].ext = 0

C3_BoundedRetries ==
    \A t \in Threads :
        LET f == th[t]
        IN  (f.op = "fetch" /\ f.max_retries = DefaultMaxRetries) =>
               /\ f.ext <= 3
               /\ Len(f.sleeps) <= 2
               /\ f.sleeps = SubSeq(<<2, 5>>, 1, Len(f.sleeps))
               /\ f.pc = "done" =>
                     /\ f.result.kind # "raise"
                     /\ f.ext > 0 => Len(f.sleeps) = f.ext - 1

C3_Witness ==
    \E t \in Threads :
        /\ FetchDone(th[t]) /\ th[t].max_retries = DefaultMaxRetries
        /\ th[t].ext = 3 /\ th[t].sleeps = <<2, 5>>
        /\ th[t].last = "exception" /\ th[t].result = None

\* C4: two concurrent fetch_data calls for the same (ticker, interval) never
\* both have a provider request in flight.
C4_SingleFlight ==
    \A t1, t2 \in Threads :
        (t1 # t2 /\ th[t1].op = "fetch" /\ th[t2].op = "fetch"
           /\ KeyOf(th[t1]) = KeyOf(th[t2])) =>
           ~(th[t1].pc = "inflight" /\ th[t2].pc = "inflight")

\* C5: once every concurrent DataCache.set has completed, the cache entry and
\* the fallback entry of each key hold the same series.
C5_SetAtomic ==
    (\A t \in Threads : th[t].pc \in {"idle", "done"}) =>
        \A key \in DOMAIN cache :
            key \in DOMAIN fallback /\ cache[key].data = fallback[key]

\* C6: two external requests for the same symbol start at least
\* RATE_LIMIT_DELAY apart, whichever calls they belong to.
C6_RequestsSpaced ==
    \A t \in Threads : Present(th[t].gap) => th[t].gap >= RATE_LIMIT_DELAY

\* C7: no series the validation rule rejects is stored in the cache or the
\* fallback map or returned as a fresh result; an attempt that ends with
\* such a series is a failed attempt: it is followed by the backoff, and the
\* call whose last attempt it is returns the fallback or None.
C7_ValidatedBeforeStored ==
    /\ \A key \in DOMAIN cache : ~SpecRejects(cache[key].data, IntervalOf(key))
    /\ \A key \in DOMAIN fallback : ~SpecRejects(fallback[key], IntervalOf(key))
    /\ \A t \in Threads :
          LET f == th[t]
          IN  /\ f.pc \in {"set_cache", "set_fallback"} => ~SpecRejects(f.df, f.interval)
              /\ (FetchDone(f) /\ f.via \in {"fresh", "mock"}) =>
                    (f.result.kind = "df" /\ ~SpecRejects(f.result.df, f.interval))
              /\ (f.op = "fetch" /\ f.last = "invalid" /\ f.pc = "backoff") =>
                    (Len(f.sleeps) = f.ext /\ f.sleeps[f.ext] = retry_delays[f.ext])
              /\ (FetchDone(f) /\ f.last = "invalid"
                    /\ f.max_retries = DefaultMaxRetries) =>
                    /\ f.ext = DefaultMaxRetries
                    /\ f.result = FallbackOrNone(KeyOf(f))

C7_Witness ==
    \E t \in Threads :
        /\ FetchDone(th[t]) /\ th[t].last = "invalid" /\ th[t].first = "invalid"
        /\ th[t].via = "fallback" /\ th[t].ext = DefaultMaxRetries

WellFormed(df) ==
    /\ Len(df) > 0
    /\ \A i \in 1..Len(df) :
          /\ \A c \in Columns : Present(df[i][c])
          /\ ~Inconsistent(df[i])

\* C9: for '1d' every well-formed frame is reported valid
C9_DailyWellFormedValid ==
    (vout.done /\ vin.interval = "1d" /\ WellFormed(vin.df)) => vout.is_valid

\* C11: the value fetch_data returns when it serves the fallback differs
\* from the value the successful fetch of that same series returned, so that
\* the caller can tell a stale result from a fresh one.
C11_FallbackDistinguishable ==
    \A t \in Threads :
        LET f == th[t]
        IN  (FetchDone(f) /\ f.via = "fallback") =>
               f.result # DfResult(lastGood[KeyOf(f)])

\* a step of thread t inside a fetch_data call no attempt of which has
\* succeeded (and which does not take the mock branch)
FailingStep(t) ==
    /\ th'[t] # th[t]
    /\ th'[t].stage = "fetch"
    /\ th'[t].last # "valid"
    /\ th'[t].via # "mock"

\* the entries of the cache map c that are not older than 2 x TTL at time now
KeptByAge(c, now) ==
    [key \in {k \in DOMAIN c : now - c[k].timestamp <= 2 * CACHE_TTL} |-> c[key]]

\* C12: clear_expired removes from the cache map exactly the entries older
\* than 2 x TTL and leaves the fallback map alone; a fallback entry is never
\* removed, and its series changes only when DataCache.set stores one for
\* its key.
C12_ClearExpiredFrame ==
    [][/\ cop'.op = "clear_expired" =>
             (cache' = KeptByAge(cache, clock) /\ fallback' = fallback)
       /\ \A key \in DOMAIN fallback :
             /\ key \in DOMAIN fallback'
             /\ heap'[fallback'[key]] # heap[fallback[key]] =>
                   /\ cop'.op = "set" /\ cop'.key = key
                   /\ heap'[fallback'[key]] = heap[cop'.ref]]_vars

C12_Witness ==
    /\ cop.op = "clear_expired"
    /\ \E k1, k2 \in ObjKeys :
          /\ k1 \notin DOMAIN cache /\ k1 \in DOMAIN fallback
          /\ k2 \in DOMAIN cache /\ clock - cache[k2].timestamp >= CACHE_TTL

\* C13: whatever the caller writes into the frames it holds (the one it
\* passed to set, the ones get and get_fallback returned), the frames in the
\* cache and fallback maps hold the series that was stored, and a lookup
\* returns that series.
C13_CopiesHandedOut ==
    /\ \A key \in DOMAIN cache : heap[cache[key].data] = orig.cache[key]
    /\ \A key \in DOMAIN fallback : heap[fallback[key]] = orig.fallback[key]
    /\ (cop.op = "get" /\ cop.ref # 0) => heap[cop.ref] = orig.cache[cop.key]
    /\ (cop.op = "get_fallback" /\ cop.ref # 0) =>
          heap[cop.ref] = orig.fallback[cop.key]

C13_Witness ==
    \E h \in held :
        /\ h.from = "get" /\ cop = Op("mutate", "", h.ref)
        /\ h.key \in DOMAIN cache
        /\ heap[h.ref] # heap[cache[h.key].data]
        /\ heap[cache[h.key].data] = orig.cache[h.key]

\* C14: no step of a fetch_data call whose attempts fail changes the cache map
\* or the fallback map: every entry, of the requested key and of the others,
\* stays as it was before the call.
C14_FailedCallLeavesState ==
    [][\A t \in Threads :
          FailingStep(t) => (cache' = cache /\ fallback' = fallback)]_vars

C14_Witness ==
    \E t \in Threads :
        /\ FetchDone(th[t]) /\ th[t].ext = DefaultMaxRetries
        /\ th[t].last = "empty" /\ th[t].via = "fallback"
        /\ KeyOf(th[t]) \in DOMAIN cache
        /\ cache[KeyOf(th[t])].data = fallback[KeyOf(th[t])]

\* C15: fetch_data with an interval that is no key of FETCH_CONFIG returns
\* None at once: no cache lookup, no request, no rate-limiter wait, and the
\* cache, fallback and rate-limiter maps are left as they were.
C15_UnsupportedRejected ==
    /\ [](\A t \in Threads :
            (th[t].op = "fetch" /\ th[t].interval \notin FETCH_CONFIG) =>
               /\ th[t].pc = "done" /\ th[t].result = None
               /\ th[t].via = "unsupported"
               /\ th[t].ext = 0 /\ th[t].sleeps = <<>>
               /\ ~Present(th[t].entryAge))
    /\ [][\A t \in Threads :
            (th[t].pc = "idle" /\ th'[t].op = "fetch"
               /\ th'[t].interval \notin FETCH_CONFIG) =>
               UNCHANGED <<cache, fallback, last_request_time, reqLast>>]_vars

C15_Witness ==
    \E t \in Threads :
        /\ th[t].pc = "done" /\ th[t].op = "fetch" /\ th[t].interval = "2h"
        /\ th[t].result = None
        /\ cache_key(th[t].ticker, "30m") \in DOMAIN fallback

\* C10: fetch_data serves the cache entry exactly when its age is below the
\* TTL; at age >= TTL the lookup yields nothing and the entry is not served.
C10_NoStaleHit ==
    \A t \in Threads :
        LET f == th[t]
        IN  FetchDone(f) =>
               /\ f.via = "hit" <=>
                     (f.use_cache /\ Present(f.entryAge) /\ f.entryAge < CACHE_TTL)
               /\ f.via = "hit" => f.result = DfResult(f.entryData)

C10_Witness ==
    \E t \in Threads :
        /\ FetchDone(th[t]) /\ th[t].use_cache
        /\ th[t].entryAge = CACHE_TTL + 1
        /\ th[t].via # "hit"

\* C16: a request for /api/current-price/INVALID is answered with status
\* 400, success=false and an error string, and no fetch_data call is made.
C16_InvalidTicker400 ==
    (rt.pc = "done" /\ rt.ticker = "INVALID") =>
        /\ rt.status = 400
        /\ ~rt.success /\ rt.error # ""
        /\ calls = 0

At(wd, h, m, sec) == [weekday |-> wd, hour |-> h, minute |-> m, second |-> sec]

\* C17: get_market_status returns one of OPEN, CLOSED, MAINTENANCE and the
\* countdown of get_next_event is never negative.
C17_StatusAndCountdown ==
    mout.done =>
        /\ mout.status \in {"OPEN", "CLOSED", "MAINTENANCE"}
        /\ mout.next_event.countdown_seconds >= 0

C17_Witness ==
    /\ mout.done /\ mt = At(6, 18, 0, 0)
    /\ mout.status = "OPEN"
    /\ mout.next_event.countdown_seconds = Days(4) + 23 * 3600

\* C18: the state is OPEN at Friday 16:59:59, not OPEN at Friday 17:00:00,
\* CLOSED at Sunday 17:59:59 and OPEN at Sunday 18:00:00.
C18_WeeklyBoundaries ==
    mout.done =>
        /\ mt = At(4, 16, 59, 59) => mout.status = "OPEN"
        /\ mt = At(4, 17, 0, 0) => mout.status # "OPEN"
        /\ mt = At(6, 17, 59, 59) => mout.status = "CLOSED"
        /\ mt = At(6, 18, 0, 0) => mout.status = "OPEN"

\* Friday 17:00 up to, not including, Sunday 18:00
InWeeklyClosure(t) ==
    \/ t.weekday = 4 /\ t.hour >= 17
    \/ t.weekday = 5
    \/ t.weekday = 6 /\ t.hour < 18

\* C19: at every instant of the weekly closure the state is CLOSED, never
\* MAINTENANCE.
C19_ClosureIsClosed ==
    (mout.done /\ InWeeklyClosure(mt)) => mout.status = "CLOSED"

FridayClose == (4 * 24 + 17) * 3600
SundayOpen == (6 * 24 + 18) * 3600

\* the first occurrence strictly after now of the weekly instant x
FirstAfter(x, now) == IF x > now THEN x ELSE x + Days(7)

SecOfDay(t) == (t.hour * 60 + t.minute) * 60 + t.second

\* C21: Monday to Thursday the state is MAINTENANCE exactly during
\* [17:00:00, 18:00:00) and OPEN at every other instant; 17:00:00 is already
\* MAINTENANCE and 18:00:00 already OPEN.
C21_WeekdayMaintenance ==
    (mout.done /\ mt.weekday \in 0..3) =>
        IF 17 * 3600 <= SecOfDay(mt) /\ SecOfDay(mt) < 18 * 3600
        THEN mout.status = "MAINTENANCE"
        ELSE mout.status = "OPEN"

C21_Witness ==
    /\ mout.done /\ mt = At(3, 18, 0, 0)
    /\ mout.status = "OPEN"
    /\ mout.next_event.type = "close"

\* C22: ensure_et is idempotent and survives the round trip through UTC:
\* ensure_et(ensure_et(x)) and ensure_et(ensure_utc(ensure_et(x))) are the
\* same instant, with the same wall-clock reading and offset, as ensure_et(x).
C22_TimezoneRoundTrip ==
    pout.done =>
        /\ pout.et_et = pout.et
        /\ pout.et_utc_et = pout.et
        /\ pin.x # NoneDt =>
              (pout.et.tz = "ET" /\ UtcHour(pout.et) = UtcHour(ensure_utc(pin.x)))

C22_Witness ==
    /\ pout.done
    /\ pin.x = Dt(SpringForward + 2, "naive", 0)
    /\ pout.et = Dt(SpringForward + 2 - 4, "ET", 0 - 4)
    /\ pout.et_utc_et = pout.et

\* C26: for a level L > 0 and a price P, _calculate_signal returns (NEAR, 0)
\* when |P - L| / L x 100 < 0.10, and otherwise (ABOVE, +1) when P > L and
\* (BELOW, -1) when P < L; proximity and signal always agree.
C26_SignalRule ==
    (pout.done /\ pin.reference_level > 0) =>
        LET P == pin.current_price
            L == pin.reference_level
            gap == IF P >= L THEN P - L ELSE L - P
        IN  /\ pout.result \in {<<"NEAR", 0>>, <<"ABOVE", 1>>, <<"BELOW", 0 - 1>>}
            /\ gap * 1000 < L => pout.result = <<"NEAR", 0>>
            /\ (gap * 1000 >= L /\ P > L) => pout.result = <<"ABOVE", 1>>
            /\ (gap * 1000 >= L /\ P < L) => pout.result = <<"BELOW", 0 - 1>>

C26_Witness ==
    /\ pout.done
    /\ pin.reference_level = 2000 /\ pin.current_price = 1998
    /\ pout.result = <<"BELOW", 0 - 1>>

\* C30: calculate_fibonacci_pivots(H, L, C) returns PP = (H+L+C)/3,
\* R1/S1 = PP +/- (H-L), R2/S2 = PP +/- 1.618 (H-L), R3/S3 = PP +/- 2 (H-L);
\* each Rk and Sk are symmetric about PP, the seven levels are ordered
\* S3 <= S2 <= S1 <= PP <= R1 <= R2 <= R3 whenever H >= L, and
\* H=110, L=90, C=100 gives PP=100, R1=120, S1=80, R3=140, S3=60.
\* (Every level is compared as 3000 times its value.)
C30_FibonacciPivots ==
    pout.done =>
        LET H == pin.high
            L == pin.low
            C == pin.close
            r == pout.result
        IN  /\ 3 * r.PP = 3000 * (H + L + C)
            /\ r.R1 - r.PP = 3000 * (H - L)
            /\ 1000 * (r.R2 - r.PP) = 1618 * 3000 * (H - L)
            /\ r.R3 - r.PP = 2 * 3000 * (H - L)
            /\ r.R1 + r.S1 = 2 * r.PP
            /\ r.R2 + r.S2 = 2 * r.PP
            /\ r.R3 + r.S3 = 2 * r.PP
            /\ H >= L =>
                  /\ r.S3 <= r.S2 /\ r.S2 <= r.S1 /\ r.S1 <= r.PP
                  /\ r.PP <= r.R1 /\ r.R1 <= r.R2 /\ r.R2 <= r.R3
            /\ (H = 110 /\ L = 90 /\ C = 100) =>
                  /\ r.PP = 3000 * 100 /\ r.R1 = 3000 * 120 /\ r.S1 = 3000 * 80
                  /\ r.R3 = 3000 * 140 /\ r.S3 = 3000 * 60

C30_Witness ==
    /\ pout.done
    /\ pin.high = 110 /\ pin.low = 90 /\ pin.close = 100
    /\ pout.result.R2 = 397080

\* the window [sessionStart, sessionEnd) of session k for a target date: a
\* midnight-spanning session starts on the prior calendar date and ends on
\* the target date
WindowStart(k, target) ==
    At5(IF SESSIONS[k].spans_midnight THEN target - 1 ELSE target,
        SESSIONS[k].start_hour, SESSIONS[k].start_min)
WindowEnd(k, target) == At5(target, SESSIONS[k].end_hour, SESSIONS[k].end_min)
InWindow(t, k, target) ==
    NotAfter(WindowStart(k, target), t) /\ Before(t, WindowEnd(k, target))
TargetDate == IF pin.fn = "get_current_session_ranges" THEN pin.current_time_et.date
              ELSE pin.current_time_et.date - 1

\* C28: for each session and target date, _calculate_session_range
\* aggregates exactly the bars whose local timestamp lies in
\* [sessionStart, sessionEnd) for that date; for the Asian session the window
\* is [18:00 on the prior date, 02:00 on the target date), so no bar at or
\* after 02:00 on the target date contributes to high, low or bar count.
C28_SessionWindow ==
    pout.done =>
        \A k \in SessionKeys :
            LET inside == {b \in pin.df : InWindow(b.ts, k, TargetDate)}
                r == pout.ranges[k]
            IN  /\ r.bar_count = Cardinality(inside)
                /\ inside # {} =>
                      /\ r.high = SetMax({b.High : b \in inside})
                      /\ r.low = SetMin({b.Low : b \in inside})

\* C29: a session's is_active flag is true only in the current-day query and
\* only when the current instant lies within the session's window
\* [sessionStart, sessionEnd); it is false for every previous-day query and
\* whenever now is outside the window.
C29_ActiveOnlyInWindow ==
    pout.done =>
        \A k \in SessionKeys :
            pout.ranges[k].is_active =>
                /\ pin.fn = "get_current_session_ranges"
                /\ InWindow(pin.current_time_et, k, pin.current_time_et.date)

\* C23: for every hourly series with at least 2 bars, the hourly_open level
\* is the open of the last bar and the previous_hourly_open level is the open
\* of the second-to-last bar (opens [100,101,102,103,104] give 104 and 103),
\* as computed by calculate_hourly_open and calculate_previous_hourly_open.
C23_HourlyOpens ==
    (pout.done /\ pin.fn = "hourly_opens" /\ Len(pin.df) >= 2) =>
        LET last == pin.df[Len(pin.df)].Open
            prev == pin.df[Len(pin.df) - 1].Open
        IN  /\ pout.hourly_open = Some(last)
            /\ pout.previous_hourly_open = Some(prev)
            /\ pout.service_previous_hourly_open = Some(prev)
            /\ pout.levels["hourly_open"] = Some(last)
            /\ pout.levels["previous_hourly_open"] = Some(prev)

\* the anchor instant of each periodic open for the reference time now
AnchorOf(level, now) ==
    CASE level = "weekly_open" -> At5(now.date - (now.date % 7), 0, 0)
      [] level = "monthly_open" -> At5(FirstOfMonth, 0, 0)
      [] level = "daily_open_midnight" -> At5(now.date, 0, 0)
      [] level = "ny_open_0700" -> At5(now.date, 7, 0)
      [] level = "ny_open_0830" -> At5(now.date, 8, 30)

PeriodicLevels ==
    {"weekly_open", "monthly_open", "daily_open_midnight", "ny_open_0700",
     "ny_open_0830"}

\* C24: for each anchored periodic-open level (weekly, monthly,
\* daily-midnight, 07:00, 08:30) over a non-empty series, the level is the
\* open of the first bar whose timestamp is at or after the anchor instant;
\* when no bar is at or after the anchor, it is the open of the first bar.
C24_AnchoredOpens ==
    (pout.done /\ pin.fn = "periodic_opens") =>
        \A level \in PeriodicLevels :
            LET anchor == AnchorOf(level, pin.current_time)
                later == {i \in 1..Len(pin.df) : NotAfter(anchor, pin.df[i].ts)}
                expected == Some(IF later # {} THEN pin.df[SetMin(later)].Open
                                 ELSE pin.df[1].Open)
            IN  pout[level] = expected /\ pout.levels[level] = expected

\* rows a+1 .. b of the frame (Python positions [a:b])
Rows(df, a, b) == {df[i] : i \in (a + 1)..b}
HighOver(R) == Some(SetMax({b.High : b \in R}))
LowOver(R) == Some(SetMin({b.Low : b \in R}))

\* C25: the extrema levels are max High / min Low over fixed positional
\* windows of the daily series: previous day = the second-to-last bar,
\* previous week = the bars at positions [-13:-6], running week = the last 5
\* bars; a series shorter than the window (fewer than 2, 7 or 5 bars) gives
\* the level over all available bars.
C25_ExtremaWindows ==
    (pout.done /\ pin.fn = "extrema") =>
        LET n == Len(pin.df)
            all == Rows(pin.df, 0, n)
            day == IF n >= 2 THEN {pin.df[n - 1]} ELSE all
            prev_week == IF n >= 7 THEN Rows(pin.df, IF n >= 13 THEN n - 13 ELSE 0, n - 6)
                         ELSE all
            week == IF n >= 5 THEN Rows(pin.df, n - 5, n) ELSE all
        IN  /\ pout.prev_day = <<HighOver(day), LowOver(day)>>
            /\ pout.prev_week_high = HighOver(prev_week)
            /\ pout.prev_week_low = LowOver(prev_week)
            /\ pout.week = <<HighOver(week), LowOver(week)>>
            /\ pout.service_prev_week_high = HighOver(prev_week)
            /\ pout.service_prev_week_low = LowOver(prev_week)
            /\ pout.levels["previous_day_high"] = HighOver(day)
            /\ pout.levels["previous_day_low"] = LowOver(day)
            /\ pout.levels["previous_week_high"] = HighOver(prev_week)
            /\ pout.levels["previous_week_low"] = LowOver(prev_week)
            /\ pout.levels["weekly_high"] = HighOver(week)
            /\ pout.levels["weekly_low"] = LowOver(week)

\* C27: in calculate_all_levels a level that cannot be computed resolves to
\* an absent price and a null signal, never to an exception; it does not
\* abort the computation of the other levels, the response still reports
\* success, and closest_level is the resolved level with the smallest
\* absolute price distance (null only when no level resolved).
C27_AbsentLevels ==
    (pout.done /\ pin.fn = "calculate_all_levels" /\ pin.current_price.ok) =>
        LET r == pout.response
            P == pin.current_price.v
            resolved == {k \in LevelKeys : r.reference_levels[k].ok}
        IN  /\ r.kind = "success"
            /\ \A k \in LevelKeys : r.signals[k].ok = r.reference_levels[k].ok
            /\ r.closest_level.ok = (resolved # {})
            /\ r.closest_level.ok =>
                  /\ r.closest_level.level \in resolved
                  /\ \A k \in resolved :
                        Abs(r.closest_level.distance)
                          <= Abs(P - r.reference_levels[k].v)

\* the exact end of block n, in sevenths of a microsecond past the hour, lies
\* within half a microsecond of t
NearestToSeventh(t, hour, n) ==
    LET q == 3600 * n
        d == 7 * t.us - 1000000 * (q % 7)
    IN  /\ t.hour = hour /\ t.s = q \div 7
        /\ 0 - 3 <= d /\ d <= 3

\* C31: for every instant the current clock hour is divided into 7 contiguous
\* equal blocks (block 1 starts at the hour start, each block starts where
\* the previous ends, block 7 ends at the next hour start; each boundary is
\* the clock reading nearest to a whole number of sevenths of the hour); a
\* block is complete iff now >= its end, and the current block is the first
\* incomplete block (the 7th if all are complete); at hour start + 20:00
\* blocks 1 and 2 are complete and the current block is 3.
C31_SevenBlocks ==
    pout.hourly.asked =>
        LET now == pout.hourly.at
            r == pout.hourly.r
            b == r.blocks
            open == {n \in 1..7 : ~b[n].is_complete}
        IN  /\ b[1].start_time = Instant(now.hour, 0, 0)
            /\ b[7].end_time = Instant(now.hour, 3600, 0)
            /\ \A n \in 1..6 : b[n + 1].start_time = b[n].end_time
            /\ \A n \in 1..7 : NearestToSeventh(b[n].end_time, now.hour, n)
            /\ \A n \in 1..7 : b[n].is_complete = AtLeast(now, b[n].end_time)
            /\ r.current_block.block_num
                 = IF open = {} THEN 7 ELSE CHOOSE n \in open : \A m \in open : n <= m
            /\ (now.s = 1200 /\ now.us = 0) =>
                  /\ b[1].is_complete /\ b[2].is_complete /\ ~b[3].is_complete
                  /\ r.current_block.block_num = 3

C31_Witness ==
    /\ pout.hourly.asked
    /\ pout.hourly.at = Instant(10, 1200, 0)
    /\ pout.hourly.r.blocks_completed = 2
    /\ pout.hourly.r.current_block.block_num = 3

\* C39 (state part): the complete blocks of the current hour are a prefix
\* 1..k with 0 <= k <= 6, blocks_completed = k, and the current block is k+1
\* by the first-incomplete rule of get_hourly_blocks and by the
\* containing-interval rule of get_current_block and get_blocks_summary.
C39_PrefixState ==
    /\ pout.hourly.asked =>
          LET r == pout.hourly.r
              k == r.blocks_completed
          IN  /\ k \in 0..6
              /\ \A n \in 1..7 : r.blocks[n].is_complete = (n <= k)
              /\ r.current_block.block_num = k + 1
    /\ pout.summary.asked =>
          /\ pout.summary.r.blocks_completed \in 0..6
          /\ pout.summary.r.current_block = pout.summary.r.blocks_completed + 1
    /\ (pout.current.asked /\ pout.summary.asked) =>
          pout.current.r.current_block = pout.summary.r.current_block
    /\ (pout.current.asked /\ pout.hourly.asked) =>
          pout.current.r.current_block = pout.hourly.r.current_block.block_num

\* C39 (step part): as time advances within an hour, k never decreases.
C39_NeverDecreases ==
    (pout.seen.asked /\ pout'.seen.asked /\ pout'.seen.at.hour = pout.seen.at.hour)
        => pout'.seen.blocks_completed >= pout.seen.blocks_completed

\* C39: both parts
C39_BlockPrefix == []C39_PrefixState /\ [][C39_NeverDecreases]_vars

C39_Witness ==
    /\ pout.hourly.asked /\ pout.current.asked /\ pout.summary.asked
    /\ pin.now = block_offset(10, 3)
    /\ pout.summary.r.blocks_completed = 3
    /\ pout.current.r.current_block = 4
    /\ pout.seen.asked

\* C34: between calls (sequential fetch_data, DataCache.set, clear_expired),
\* each key present in the cache map is also present in the fallback map and
\* the two entries hold the same series.
C34_CacheWithinFallback ==
    (\A t \in Threads : th[t].pc \in {"idle", "done"}) =>
        \A key \in DOMAIN cache :
            key \in DOMAIN fallback /\ cache[key].data = fallback[key]

C34_Witness ==
    /\ th[1].pc = "done" /\ th[1].via = "fallback"
    /\ th[2].pc = "done" /\ th[2].via = "fresh"
    /\ th[2].result.df = <<G1, G2>>
    /\ cache[KeyOf(th[2])].data = <<G1, G2>>
    /\ fallback[KeyOf(th[2])] = <<G1, G2>>

\* the call before ended by returning the fallback, and the call after it is
\* for the same key with use_cache = True
AfterFallback ==
    /\ th[1].pc = "done" /\ th[1].op = "fetch" /\ th[1].via = "fallback"
    /\ th[2].op = "fetch" /\ th[2].use_cache
    /\ KeyOf(th[2]) = KeyOf(th[1])

\* the next call, once the provider answered a request of its with a valid
\* series, returns that series and leaves it in the cache and the fallback
Recovered ==
    (th[2].pc = "done" /\ th[2].last = "valid") =>
        /\ th[2].via = "fresh"
        /\ th[2].result = DfResult(cache[KeyOf(th[2])].data)
        /\ fallback[KeyOf(th[2])] = th[2].result.df
        /\ cache[KeyOf(th[2])].timestamp = clock

\* C35 as stated: after a fetch_data call that ended by returning the
\* fallback, the next fetch_data call for the same key with use_cache=True
\* again attempts an external fetch, so once the provider answers with a
\* valid series that call returns the fresh series and replaces both the
\* cache entry and the fallback.
C35_RefetchAfterFallback ==
    AfterFallback =>
        /\ th[2].pc = "done" => th[2].ext >= 1
        /\ Recovered

\* C35 as amended: after a fetch_data call with use_cache=True that ended by
\* returning the fallback, the next call for the same key with
\* use_cache=True is not served from the cache: it makes its external
\* attempts (at least one unless max_retries is 0), and once the provider
\* answers with a valid series it returns the fresh series and replaces both
\* the cache entry and the fallback.
C35_RefetchAfterCachedFallback ==
    (AfterFallback /\ th[1].use_cache) =>
        /\ th[2].via # "hit"
        /\ (th[2].pc = "done" /\ th[2].max_retries >= 1) => th[2].ext >= 1
        /\ Recovered

C35_Witness ==
    /\ AfterFallback /\ th[1].use_cache
    /\ th[1].entryData = <<G2, G1>>
    /\ th[2].pc = "done" /\ th[2].first = "valid" /\ th[2].ext = 1
    /\ th[2].result.df = <<G1, G2>>
    /\ cache[KeyOf(th[2])].data = <<G1, G2>>

\* C36: for every value of max_retries (0, 1, 2, 3 and above), a fetch_data
\* call whose attempts all fail terminates without propagating an exception
\* and returns the fallback series when one exists for the key and None
\* otherwise.
C36_AnyRetryCount ==
    \A t \in Threads :
        (th[t].pc = "done" /\ th[t].op = "fetch"
           /\ th[t].via \in {"fallback", "unavailable", "raised", "no_attempt"}) =>
            /\ th[t].result.kind # "raise"
            /\ th[t].result = DataCache_get_fallback(KeyOf(th[t]))

\* C37: when the hourly, daily and minute series are all non-empty,
\* calculate_all_levels resolves every one of the 16 levels to a price, so
\* every entry of signals is non-null and closest_level is non-null.
C37_EveryLevelResolves ==
    (/\ pout.done /\ pin.fn = "calculate_all_levels"
     /\ pin.current_price.ok
     /\ pin.hourly_data.ok /\ pin.daily_data.ok /\ pin.minute_data.ok) =>
        LET r == pout.response
        IN  /\ r.kind = "success"
            /\ \A k \in LevelKeys : r.reference_levels[k].ok
            /\ \A k \in LevelKeys : r.signals[k].ok
            /\ r.closest_level.ok

\* C38: the four session windows are pairwise disjoint, so in the result of
\* get_current_session_ranges at most one session has is_active = true for
\* any current instant and any bar series.
C38_OneActiveSession ==
    (pout.done /\ pin.fn = "get_current_session_ranges") =>
        Cardinality({k \in SessionKeys : pout.ranges[k].is_active}) <= 1

\* the open of the first row of df at or after the anchor, else of the row
\* at position otherwise
OpenFrom(df, anchor, otherwise) ==
    LET later == {i \in 1..Len(df) : NotAfter(anchor, df[i].ts)}
    IN  Some(IF later # {} THEN df[SetMin(later)].Open ELSE df[otherwise].Open)

\* C33: the clock anchors used for the daily-midnight, 07:00 and 08:30
\* levels are the instants 00:00, 07:00 and 08:30 America/New_York time on
\* the current local date, whatever the timezone of current_time (with a
\* UTC-aware current_time the anchor is still 07:00 local, not 07:00 UTC),
\* and the levels are taken from the first bar at or after those anchors.
C33_LocalClockAnchors ==
    (pout.done /\ pin.fn = "clock_anchors") =>
        LET today == as_et(pin.current_time).date
            df == pin.df
        IN  /\ pout.midnight = At5(today, 0, 0)
            /\ pout.seven_am = At5(today, 7, 0)
            /\ pout.eight_thirty_am = At5(today, 8, 30)
            /\ pout.daily_open_midnight = OpenFrom(df, At5(today, 0, 0), 1)
            /\ pout.ny_open_0700 = OpenFrom(df, At5(today, 7, 0), Len(df))
            /\ pout.ny_open_0830 = OpenFrom(df, At5(today, 8, 30), Len(df))

====
